---------------------------- MODULE Spec2Model ----------------------------
(***************************************************************************)
(* TimeClock (timeclock-app/core): the shift lifecycle engine of           *)
(* services.py over the tables of models.py, with the portal's policy and  *)
(* schedule saves (views.py).                                              *)
(*                                                                         *)
(* An instant is a number of milliseconds since 00:00 of day 0 (TIME_ZONE  *)
(* is UTC, so local time is server time).  The clock advances in steps of  *)
(* TickSeconds seconds.  A table is a sequence of rows; a row's primary    *)
(* key is its index, and .first() on an unordered queryset returns the     *)
(* lowest key.                                                             *)
(***************************************************************************)
EXTENDS Integers, Sequences, FiniteSets, TLC

VARIABLES
    policyRows,       \* TimeclockPolicy table: a set of rows, each with its pk
    scheduledShifts,  \* ScheduledShift table
    workShifts,       \* WorkShift table
    mealBreaks,       \* MealBreak table
    editLogs,         \* ShiftEditLog table
    clock,            \* the server clock (timezone.now())
    workers,          \* the request each server worker is executing
    last              \* the outcome returned by the step just taken

vars == <<policyRows, scheduledShifts, workShifts, mealBreaks, editLogs,
          clock, workers, last>>

(***************************************************************************)
(* Bounds of the model                                                     *)
(***************************************************************************)
MaxTicks == 2
MaxShifts == 2
MaxBreaks == 2
MaxSkew == 1
MaxWorkers == 2
MaxLogs == 2
MaxAdminShifts == 1
MaxHours == 1

(***************************************************************************)
(* Values                                                                  *)
(***************************************************************************)
NULL == -1
NoUser == "nobody"
TickSeconds == 900
MillisPerSecond == 1000
Seconds(n) == n * MillisPerSecond
Minutes(n) == Seconds(n * 60)
Hours(n) == Minutes(n * 60)
Tick1 == Seconds(TickSeconds)

Employees == {"e1", "e2"}

\* 08:45 of day 0
ClockStart == Hours(8) + Minutes(45)
ClockEnd == ClockStart + MaxTicks * Tick1
Skews == 0..MaxSkew
Workers == 1..MaxWorkers

\* time of day 09:00, the start time the portal's schedule form submits
StartTimes == {Hours(9)}
EndTimes == {Hours(17)}
Dates == {0}
\* grace minutes the policy form submits
GraceChoices == {0, 15}

OPEN == "OPEN"
CLOSED == "CLOSED"
EDITED == "EDITED"
FLAGGED == "FLAGGED"
Status == {OPEN, CLOSED, EDITED, FLAGGED}

MsgAlreadyOpen == "You already have an open shift."
MsgNoSchedule == "No scheduled shift today. Clock in not allowed."
MsgOutsideWindow == "Clock in outside allowed time window."
MsgUnscheduled == "Unscheduled clock in not allowed by policy."
MsgClockedInFlagged == "Clocked in. No schedule found so this shift was flagged as unscheduled."
MsgClockedIn == "Clocked in successfully."
MsgMustClockIn == "You must clock in before starting a meal break."
MsgBreakActive == "Meal break already active."
MsgBreakStarted == "Meal break started."
MsgNoOpenShift == "No open shift."
MsgNoActiveBreak == "No active meal break."
MsgBreakEndedFlagged == "Meal break ended. Break was under 30 minutes so the shift was flagged."
MsgBreakEnded == "Meal break ended."
MsgNoShiftToClockOut == "No open shift to clock out from."
MsgEndBreakFirst == "End your meal break before clocking out."
MsgClockedOut == "Clocked out successfully."

Min(S) == CHOOSE x \in S : \A y \in S : x <= y

(***************************************************************************)
(* models.py                                                               *)
(***************************************************************************)
DefaultPolicy ==
    [pk |-> 1,
     strict_schedule_enforced |-> TRUE,
     allow_unscheduled_clock_in_when_not_strict |-> TRUE,
     grace_minutes_before_start |-> 0,
     grace_minutes_after_start |-> 0,
     allow_admin_time_edits |-> TRUE,
     require_admin_edit_reason |-> TRUE]

\* TimeclockPolicy.get_solo: the row get_or_create(pk=1) returns
GetSolo ==
    IF \E r \in policyRows : r.pk = 1
    THEN CHOOSE r \in policyRows : r.pk = 1
    ELSE DefaultPolicy

\* a lookup that inserts a fresh row with the defaults every time
AfterGetSoloCreating ==
    IF Cardinality(policyRows) < 2
    THEN policyRows \cup {[DefaultPolicy EXCEPT !.pk = Cardinality(policyRows) + 1]}
    ELSE policyRows

\* TimeclockPolicy.get_solo: the table after get_or_create(pk=1)
AfterGetSolo ==
    IF \E r \in policyRows : r.pk = 1
    THEN policyRows
    ELSE policyRows \cup {DefaultPolicy}

\* timezone.localdate(): the calendar date of an instant
LocalDate(t) == t \div Hours(24)

\* timezone.make_aware(datetime.combine(date, time_of_day))
Combine(date, timeOfDay) == date * Hours(24) + timeOfDay

\* a service's return value, tuple[bool, str]
Result(ok, msg) == [ok |-> ok, msg |-> msg]

\* no service returned in the step just taken
NoResult == Result(FALSE, "")

(***************************************************************************)
(* services.py: queries                                                    *)
(***************************************************************************)
\* WorkShift.objects.filter(employee=employee, clock_out__isnull=True)
OpenShiftIds(e) ==
    {i \in 1..Len(workShifts) :
        workShifts[i].employee = e /\ workShifts[i].clock_out = NULL}

\* a slip: a shift counts as open by its status, not by its null clock_out
HasOpenShiftByStatus(e) ==
    \E i \in 1..Len(workShifts) :
        workShifts[i].employee = e /\ workShifts[i].status = OPEN

\* a slip: the employee filter is left out
HasOpenShiftOfAnyone(e) ==
    \E i \in 1..Len(workShifts) : workShifts[i].clock_out = NULL

\* line 55: .exists()
HasOpenShift(e) == OpenShiftIds(e) # {}

\* a slip: the clock_out__isnull filter is left out
GetOpenShiftClosedToo(e) ==
    IF \E i \in 1..Len(workShifts) : workShifts[i].employee = e
    THEN Min({i \in 1..Len(workShifts) : workShifts[i].employee = e})
    ELSE NULL

\* get_open_shift: .first() of the open shifts, or NULL
GetOpenShift(e) == IF OpenShiftIds(e) = {} THEN NULL ELSE Min(OpenShiftIds(e))

\* a slip: the end_time__isnull filter is left out
OpenBreakIdsEndedToo(s) ==
    {b \in 1..Len(mealBreaks) : mealBreaks[b].shift = s}

\* shift.meal_breaks.filter(end_time__isnull=True)
OpenBreakIds(s) ==
    {b \in 1..Len(mealBreaks) :
        mealBreaks[b].shift = s /\ mealBreaks[b].end_time = NULL}

\* a slip: the filter reads end_time__isnull=False
GetOpenBreakInverted(s) ==
    IF s = NULL THEN NULL
    ELSE LET ended == {b \in 1..Len(mealBreaks) :
                          mealBreaks[b].shift = s /\ mealBreaks[b].end_time # NULL}
         IN  IF ended = {} THEN NULL ELSE Min(ended)

\* get_open_break
GetOpenBreak(s) ==
    IF s = NULL THEN NULL
    ELSE IF OpenBreakIds(s) = {} THEN NULL ELSE Min(OpenBreakIds(s))

\* a slip: the filter leaves out is_canceled=False
ScheduledIdsWithCanceled(e, today) ==
    {i \in 1..Len(scheduledShifts) :
        scheduledShifts[i].employee = e /\ scheduledShifts[i].date = today}

\* ScheduledShift.objects.filter(employee=, date=today, is_canceled=False)
ScheduledIds(e, today) ==
    {i \in 1..Len(scheduledShifts) :
        /\ scheduledShifts[i].employee = e
        /\ scheduledShifts[i].date = today
        /\ ~scheduledShifts[i].is_canceled}

FindScheduled(e, today) ==
    IF ScheduledIds(e, today) = {} THEN NULL ELSE Min(ScheduledIds(e, today))

(***************************************************************************)
(* services.py: clock_in                                                   *)
(***************************************************************************)
EarlyOk(policy, startDt) ==
    startDt - Minutes(policy.grace_minutes_before_start)

LateOk(policy, startDt) ==
    startDt + Minutes(policy.grace_minutes_after_start)

\* a slip: the window is enforced even when both grace values are zero
GraceAlways(policy) == TRUE

\* line 75: either grace value is truthy
GraceConfigured(policy) ==
    policy.grace_minutes_before_start # 0 \/ policy.grace_minutes_after_start # 0

\* a slip: the bounds are exclusive
InWindowExclusive(policy, startDt, now) ==
    EarlyOk(policy, startDt) < now /\ now < LateOk(policy, startDt)

\* line 76
InWindow(policy, startDt, now) ==
    EarlyOk(policy, startDt) <= now /\ now <= LateOk(policy, startDt)

\* a slip: the grace window is checked outside the strict branch as well
PolicyRejectionWindowAlways(policy, scheduled, today, now) ==
    IF policy.strict_schedule_enforced /\ scheduled = NULL THEN MsgNoSchedule
    ELSE IF /\ ~policy.strict_schedule_enforced
            /\ scheduled = NULL
            /\ ~policy.allow_unscheduled_clock_in_when_not_strict
         THEN MsgUnscheduled
    ELSE IF /\ scheduled # NULL
            /\ GraceConfigured(policy)
            /\ ~InWindow(policy,
                         Combine(today, scheduledShifts[scheduled].start_time),
                         now)
         THEN MsgOutsideWindow
    ELSE ""

\* lines 67-80: the rejection message of the policy checks, or "" to proceed
PolicyRejection(policy, scheduled, today, now) ==
    IF policy.strict_schedule_enforced
    THEN IF scheduled = NULL THEN MsgNoSchedule
         ELSE IF /\ GraceConfigured(policy)
                 /\ ~InWindow(policy,
                              Combine(today, scheduledShifts[scheduled].start_time),
                              now)
              THEN MsgOutsideWindow
              ELSE ""
    ELSE IF scheduled = NULL /\ ~policy.allow_unscheduled_clock_in_when_not_strict
         THEN MsgUnscheduled
         ELSE ""

\* a slip: the unscheduled shift is never flagged
CreatedStatusNeverFlagged(scheduled) == OPEN

\* lines 82-91: the status the created shift is left with
CreatedStatus(scheduled) == IF scheduled = NULL THEN FLAGGED ELSE OPEN

NewShift(e, scheduled, at) ==
    [employee |-> e,
     scheduled_shift |-> scheduled,
     clock_in |-> at,
     clock_out |-> NULL,
     status |-> CreatedStatus(scheduled),
     edited_by |-> NoUser,
     edit_reason |-> ""]

\* a slip: a clock in the policy refuses is recorded as a flagged shift
ClockInRecordingRefusal(e, d1, d2) ==
    LET policy == GetSolo
        today == LocalDate(clock)
        now == clock + d1 * Tick1
        stored == now + d2 * Tick1
        scheduled == FindScheduled(e, today)
        reject == PolicyRejection(policy, scheduled, today, now)
    IN  /\ policyRows' = AfterGetSolo
        /\ UNCHANGED <<scheduledShifts, mealBreaks, editLogs, workers>>
        /\ IF HasOpenShift(e)
           THEN /\ d1 = 0 /\ d2 = 0
                /\ last' = Result(FALSE, MsgAlreadyOpen)
                /\ UNCHANGED <<workShifts, clock>>
           ELSE /\ stored <= ClockEnd
                /\ Len(workShifts) < MaxShifts
                /\ clock' = stored
                /\ workShifts' = Append(workShifts, NewShift(e, scheduled, stored))
                /\ last' = IF reject # "" THEN Result(FALSE, reject)
                           ELSE Result(TRUE, IF scheduled = NULL
                                             THEN MsgClockedInFlagged
                                             ELSE MsgClockedIn)

\* clock_in(employee); the clock is read three times (localdate, localtime,
\* now) and may advance by d1 and then d2 ticks between the reads.
ClockIn(e, d1, d2) ==
    LET policy == GetSolo
        today == LocalDate(clock)
        now == clock + d1 * Tick1
        stored == now + d2 * Tick1
        scheduled == FindScheduled(e, today)
        reject == PolicyRejection(policy, scheduled, today, now)
    IN  /\ policyRows' = AfterGetSolo
        /\ UNCHANGED <<scheduledShifts, mealBreaks, editLogs, workers>>
        /\ IF HasOpenShift(e)
           THEN /\ d1 = 0 /\ d2 = 0
                /\ last' = Result(FALSE, MsgAlreadyOpen)
                /\ UNCHANGED <<workShifts, clock>>
           ELSE IF reject # ""
           THEN /\ d2 = 0
                /\ now <= ClockEnd
                /\ clock' = now
                /\ last' = Result(FALSE, reject)
                /\ UNCHANGED workShifts
           ELSE /\ stored <= ClockEnd
                /\ Len(workShifts) < MaxShifts
                /\ clock' = stored
                /\ workShifts' = Append(workShifts, NewShift(e, scheduled, stored))
                /\ last' = Result(TRUE, IF scheduled = NULL THEN MsgClockedInFlagged
                                                              ELSE MsgClockedIn)

(***************************************************************************)
(* services.py: start_meal_break, end_meal_break, clock_out                *)
(***************************************************************************)
\* a slip: the break is created already ended
NewBreakEnded(shift, at) == [shift |-> shift, start_time |-> at, end_time |-> at]

\* a slip: the break is dated a quarter of an hour back
NewBreakBackdated(shift, at) ==
    [shift |-> shift, start_time |-> at - Tick1, end_time |-> NULL]

\* MealBreak.objects.create, lines 112-115

NewBreak(shift, at) == [shift |-> shift, start_time |-> at, end_time |-> NULL]

StartMealBreak(e) ==
    LET shift == GetOpenShift(e)
    IN  /\ UNCHANGED <<policyRows, scheduledShifts, workShifts, editLogs, clock, workers>>
        /\ IF shift = NULL
           THEN /\ last' = Result(FALSE, MsgMustClockIn)
                /\ UNCHANGED mealBreaks
           ELSE IF GetOpenBreak(shift) # NULL
           THEN /\ last' = Result(FALSE, MsgBreakActive)
                /\ UNCHANGED mealBreaks
           ELSE /\ Len(mealBreaks) < MaxBreaks
                /\ mealBreaks' = Append(mealBreaks, NewBreak(shift, clock))
                /\ last' = Result(TRUE, MsgBreakStarted)

\* int(timedelta.total_seconds()): whole seconds, truncated toward zero
WholeSeconds(ms) ==
    IF ms >= 0 THEN ms \div MillisPerSecond ELSE -((-ms) \div MillisPerSecond)

\* line 143
MinBreakSeconds == 30 * 60

\* a slip: a break of exactly 30 minutes is flagged as well
BreakTooShortInclusive(startTime, endTime) ==
    WholeSeconds(endTime - startTime) <= MinBreakSeconds

\* line 145: the break just ended is too short
BreakTooShort(startTime, endTime) ==
    WholeSeconds(endTime - startTime) < MinBreakSeconds

\* a slip: with no open break, the shift's latest break is closed again
EndMealBreakReclosing(e) ==
    LET shift == GetOpenShift(e)
        ofShift == {b \in DOMAIN mealBreaks : mealBreaks[b].shift = shift}
        brk == IF GetOpenBreak(shift) # NULL THEN GetOpenBreak(shift)
               ELSE IF ofShift = {} THEN NULL
               ELSE CHOOSE b \in ofShift : \A c \in ofShift : c <= b
    IN  /\ UNCHANGED <<policyRows, scheduledShifts, editLogs, clock, workers>>
        /\ IF shift = NULL
           THEN /\ last' = Result(FALSE, MsgNoOpenShift)
                /\ UNCHANGED <<workShifts, mealBreaks>>
           ELSE IF brk = NULL
           THEN /\ last' = Result(FALSE, MsgNoActiveBreak)
                /\ UNCHANGED <<workShifts, mealBreaks>>
           ELSE /\ mealBreaks' = [mealBreaks EXCEPT ![brk].end_time = clock]
                /\ IF BreakTooShort(mealBreaks[brk].start_time, clock)
                   THEN /\ workShifts' = [workShifts EXCEPT ![shift].status = FLAGGED]
                        /\ last' = Result(TRUE, MsgBreakEndedFlagged)
                   ELSE /\ UNCHANGED workShifts
                        /\ last' = Result(TRUE, MsgBreakEnded)

\* end_meal_break, lines 120-150

EndMealBreak(e) ==
    LET shift == GetOpenShift(e)
        brk == GetOpenBreak(shift)
    IN  /\ UNCHANGED <<policyRows, scheduledShifts, editLogs, clock, workers>>
        /\ IF shift = NULL
           THEN /\ last' = Result(FALSE, MsgNoOpenShift)
                /\ UNCHANGED <<workShifts, mealBreaks>>
           ELSE IF brk = NULL
           THEN /\ last' = Result(FALSE, MsgNoActiveBreak)
                /\ UNCHANGED <<workShifts, mealBreaks>>
           ELSE /\ mealBreaks' = [mealBreaks EXCEPT ![brk].end_time = clock]
                /\ IF BreakTooShort(mealBreaks[brk].start_time, clock)
                   THEN /\ workShifts' = [workShifts EXCEPT ![shift].status = FLAGGED]
                        /\ last' = Result(TRUE, MsgBreakEndedFlagged)
                   ELSE /\ UNCHANGED workShifts
                        /\ last' = Result(TRUE, MsgBreakEnded)

\* a slip: clock out closes the shift whatever its status
ClockOutAlwaysCloses(status) == CLOSED

\* a slip: the status is left as it was
ClockOutStatusKept(status) == status

\* a slip: a flagged shift is closed as well
ClockOutStatusClosesFlagged(status) ==
    IF status \in {OPEN, FLAGGED} THEN CLOSED ELSE status

\* lines 174-175
ClockOutStatus(status) == IF status = OPEN THEN CLOSED ELSE status

\* a slip: clock_out does not look for an open meal break
ClockOutIgnoringBreak(e) ==
    LET shift == GetOpenShift(e)
    IN  /\ UNCHANGED <<policyRows, scheduledShifts, mealBreaks, editLogs, clock, workers>>
        /\ IF shift = NULL
           THEN /\ last' = Result(FALSE, MsgNoShiftToClockOut)
                /\ UNCHANGED workShifts
           ELSE /\ workShifts' =
                       [workShifts EXCEPT
                           ![shift].clock_out = clock,
                           ![shift].status = ClockOutStatus(workShifts[shift].status)]
                /\ last' = Result(TRUE, MsgClockedOut)

\* clock_out, lines 153-178

ClockOut(e) ==
    LET shift == GetOpenShift(e)
    IN  /\ UNCHANGED <<policyRows, scheduledShifts, mealBreaks, editLogs, clock, workers>>
        /\ IF shift = NULL
           THEN /\ last' = Result(FALSE, MsgNoShiftToClockOut)
                /\ UNCHANGED workShifts
           ELSE IF GetOpenBreak(shift) # NULL
           THEN /\ last' = Result(FALSE, MsgEndBreakFirst)
                /\ UNCHANGED workShifts
           ELSE /\ workShifts' =
                       [workShifts EXCEPT
                           ![shift].clock_out = clock,
                           ![shift].status = ClockOutStatus(workShifts[shift].status)]
                /\ last' = Result(TRUE, MsgClockedOut)

(***************************************************************************)
(* models.py: the durations of a WorkShift and their display               *)
(***************************************************************************)
\* WorkShift.total_seconds
TotalSeconds(s) ==
    IF workShifts[s].clock_out = NULL
    THEN 0
    ELSE WholeSeconds(workShifts[s].clock_out - workShifts[s].clock_in)

\* WorkShift.break_seconds: the loop over self.meal_breaks.all(), by row id
RECURSIVE BreakSecondsUpTo(_, _)
BreakSecondsUpTo(s, n) ==
    IF n = 0
    THEN 0
    ELSE BreakSecondsUpTo(s, n - 1) +
         (IF mealBreaks[n].shift = s /\ mealBreaks[n].end_time # NULL
          THEN WholeSeconds(mealBreaks[n].end_time - mealBreaks[n].start_time)
          ELSE 0)

BreakSeconds(s) == BreakSecondsUpTo(s, Len(mealBreaks))

\* a slip: the difference is returned as it comes
WorkedSecondsUnclamped(s) == TotalSeconds(s) - BreakSeconds(s)

\* WorkShift.worked_seconds
WorkedSeconds(s) ==
    LET total == TotalSeconds(s)
    IN  IF total <= 0
        THEN 0
        ELSE IF total - BreakSeconds(s) > 0 THEN total - BreakSeconds(s) ELSE 0

\* a slip: minutes are not padded
FmtHhmmUnpadded(seconds) ==
    ToString((seconds \div 60) \div 60) \o ":" \o ToString((seconds \div 60) % 60)

\* WorkShift.fmt_hhmm: f"{hours}:{minutes:02d}"
FmtHhmm(seconds) ==
    LET total_minutes == seconds \div 60
        hours == total_minutes \div 60
        minutes == total_minutes % 60
    IN  ToString(hours) \o ":" \o (IF minutes < 10 THEN "0" ELSE "") \o ToString(minutes)

\* fmt_hhmm called with a number of seconds
CallFmtHhmm(seconds) ==
    /\ last' = Result(TRUE, FmtHhmm(seconds))
    /\ UNCHANGED <<policyRows, scheduledShifts, workShifts, mealBreaks, editLogs,
                   clock, workers>>

\* a page shows total_hhmm, breaks_hhmm and worked_hhmm of a shift
TotalHhmm(s) ==
    /\ s \in DOMAIN workShifts
    /\ last' = Result(TRUE, FmtHhmm(TotalSeconds(s)))
    /\ UNCHANGED <<policyRows, scheduledShifts, workShifts, mealBreaks, editLogs,
                   clock, workers>>

BreaksHhmm(s) ==
    /\ s \in DOMAIN workShifts
    /\ last' = Result(TRUE, FmtHhmm(BreakSeconds(s)))
    /\ UNCHANGED <<policyRows, scheduledShifts, workShifts, mealBreaks, editLogs,
                   clock, workers>>

WorkedHhmm(s) ==
    /\ s \in DOMAIN workShifts
    /\ last' = Result(TRUE, FmtHhmm(WorkedSeconds(s)))
    /\ UNCHANGED <<policyRows, scheduledShifts, workShifts, mealBreaks, editLogs,
                   clock, workers>>

(***************************************************************************)
(* views.py: admin_schedule, the portal's policy and schedule forms        *)
(***************************************************************************)
\* a GET of the page: the policy lookup, then the forms are rendered
ViewSchedule ==
    /\ policyRows' = AfterGetSolo
    /\ last' = NoResult
    /\ UNCHANGED <<scheduledShifts, workShifts, mealBreaks, editLogs, clock, workers>>

\* action "save_policy": TimeclockPolicyForm saves its four fields on the
\* row get_solo returned
SavePolicy(strict, allow, before, after) ==
    /\ policyRows' =
           (AfterGetSolo \ {GetSolo}) \cup
           {[GetSolo EXCEPT
               !.strict_schedule_enforced = strict,
               !.allow_unscheduled_clock_in_when_not_strict = allow,
               !.grace_minutes_before_start = before,
               !.grace_minutes_after_start = after]}
    /\ policyRows' # policyRows
    /\ last' = NoResult
    /\ UNCHANGED <<scheduledShifts, workShifts, mealBreaks, editLogs, clock, workers>>

\* the rows update_or_create(employee=, date=) looks up
ScheduleIdsFor(e, date) ==
    {i \in 1..Len(scheduledShifts) :
        scheduledShifts[i].employee = e /\ scheduledShifts[i].date = date}

MsgScheduleErrors == "Please fix the schedule form errors."

\* ScheduledShiftForm(request.POST).is_valid(): the form is bound to no
\* instance, so model validation finds the UniqueConstraint on (employee, date)
\* violated whenever a row for the pair exists
ScheduleFormValid(e, date) == ScheduleIdsFor(e, date) = {}

\* ScheduledShift.objects.update_or_create(employee=, date=, defaults=)
UpdateOrCreate(row) ==
    IF ScheduleIdsFor(row.employee, row.date) = {}
    THEN Append(scheduledShifts, row)
    ELSE [scheduledShifts EXCEPT ![Min(ScheduleIdsFor(row.employee, row.date))] = row]

\* any other action: the schedule form is validated and saved
SaveSchedule(e, date, startTime, endTime, canceled, notes) ==
    LET row == [employee |-> e, date |-> date, start_time |-> startTime,
                end_time |-> endTime, is_canceled |-> canceled, notes |-> notes]
    IN  /\ policyRows' = AfterGetSolo
        /\ IF ScheduleFormValid(e, date)
           THEN /\ scheduledShifts' = UpdateOrCreate(row)
                /\ last' = NoResult
           ELSE /\ UNCHANGED scheduledShifts
                /\ last' = Result(FALSE, MsgScheduleErrors)
        /\ UNCHANGED <<workShifts, mealBreaks, editLogs, clock, workers>>

(***************************************************************************)
(* services.py, statement by statement: each server worker executes one    *)
(* request at a time, and every database query, save and clock read is a   *)
(* step of its own (settings.py sets no ATOMIC_REQUESTS and services.py    *)
(* opens no transaction and takes no lock, so the statements of two        *)
(* requests interleave freely).                                            *)
(***************************************************************************)
Idle ==
    [pc |-> "idle", employee |-> NoUser, policy |-> DefaultPolicy,
     today |-> NULL, now |-> NULL, scheduled |-> NULL,
     shift |-> NULL, brk |-> NULL, status |-> ""]

\* the worker moves on to its next statement
Goto(w, rec) ==
    /\ workers' = [workers EXCEPT ![w] = rec]
    /\ last' = NoResult

\* the service returns (ok, msg) and the worker is free again
Return(w, ok, msg) ==
    /\ workers' = [workers EXCEPT ![w] = Idle]
    /\ last' = Result(ok, msg)

\* views.clock_in / clock_out / meal_break_toggle hand the request to a service
Begin(w, e, service) ==
    /\ workers[w].pc = "idle"
    /\ Goto(w, [Idle EXCEPT !.pc = service, !.employee = e])
    /\ UNCHANGED <<policyRows, scheduledShifts, workShifts, mealBreaks, editLogs, clock>>

\* clock_in line 53
CiGetSolo(w) ==
    /\ workers[w].pc = "clock_in"
    /\ policyRows' = AfterGetSolo
    /\ Goto(w, [workers[w] EXCEPT !.pc = "ci_exists", !.policy = GetSolo])
    /\ UNCHANGED <<scheduledShifts, workShifts, mealBreaks, editLogs, clock>>

\* clock_in lines 55-56
CiExists(w) ==
    /\ workers[w].pc = "ci_exists"
    /\ IF HasOpenShift(workers[w].employee)
       THEN Return(w, FALSE, MsgAlreadyOpen)
       ELSE Goto(w, [workers[w] EXCEPT !.pc = "ci_today"])
    /\ UNCHANGED <<policyRows, scheduledShifts, workShifts, mealBreaks, editLogs, clock>>

\* clock_in line 58
CiToday(w) ==
    /\ workers[w].pc = "ci_today"
    /\ Goto(w, [workers[w] EXCEPT !.pc = "ci_now", !.today = LocalDate(clock)])
    /\ UNCHANGED <<policyRows, scheduledShifts, workShifts, mealBreaks, editLogs, clock>>

\* clock_in line 59
CiNow(w) ==
    /\ workers[w].pc = "ci_now"
    /\ Goto(w, [workers[w] EXCEPT !.pc = "ci_scheduled", !.now = clock])
    /\ UNCHANGED <<policyRows, scheduledShifts, workShifts, mealBreaks, editLogs, clock>>

\* clock_in lines 61-80: the schedule query and the policy checks on its result
CiScheduled(w) ==
    LET me == workers[w]
        scheduled == FindScheduled(me.employee, me.today)
        reject == PolicyRejection(me.policy, scheduled, me.today, me.now)
    IN  /\ me.pc = "ci_scheduled"
        /\ IF reject # ""
           THEN Return(w, FALSE, reject)
           ELSE Goto(w, [me EXCEPT !.pc = "ci_create", !.scheduled = scheduled])
        /\ UNCHANGED <<policyRows, scheduledShifts, workShifts, mealBreaks, editLogs, clock>>

\* clock_in lines 82-87 and 94: the row is created with status OPEN
CiCreate(w) ==
    LET me == workers[w]
    IN  /\ me.pc = "ci_create"
        /\ Len(workShifts) < MaxShifts
        /\ workShifts' =
               Append(workShifts,
                      [NewShift(me.employee, me.scheduled, clock) EXCEPT !.status = OPEN])
        /\ IF me.scheduled = NULL
           THEN Goto(w, [me EXCEPT !.pc = "ci_flag", !.shift = Len(workShifts) + 1])
           ELSE Return(w, TRUE, MsgClockedIn)
        /\ UNCHANGED <<policyRows, scheduledShifts, mealBreaks, editLogs, clock>>

\* clock_in lines 89-92: shift.save(update_fields=["status"])
CiFlag(w) ==
    LET me == workers[w]
    IN  /\ me.pc = "ci_flag"
        /\ workShifts' = [workShifts EXCEPT ![me.shift].status = FLAGGED]
        /\ Return(w, TRUE, MsgClockedInFlagged)
        /\ UNCHANGED <<policyRows, scheduledShifts, mealBreaks, editLogs, clock>>

\* start_meal_break lines 105-107
SbGetShift(w) ==
    LET me == workers[w]
        shift == GetOpenShift(me.employee)
    IN  /\ me.pc = "start_meal_break"
        /\ IF shift = NULL
           THEN Return(w, FALSE, MsgMustClockIn)
           ELSE Goto(w, [me EXCEPT !.pc = "sb_break", !.shift = shift])
        /\ UNCHANGED <<policyRows, scheduledShifts, workShifts, mealBreaks, editLogs, clock>>

\* start_meal_break lines 109-110
SbGetBreak(w) ==
    LET me == workers[w]
    IN  /\ me.pc = "sb_break"
        /\ IF GetOpenBreak(me.shift) # NULL
           THEN Return(w, FALSE, MsgBreakActive)
           ELSE Goto(w, [me EXCEPT !.pc = "sb_create"])
        /\ UNCHANGED <<policyRows, scheduledShifts, workShifts, mealBreaks, editLogs, clock>>

\* start_meal_break lines 112-117
SbCreate(w) ==
    LET me == workers[w]
    IN  /\ me.pc = "sb_create"
        /\ Len(mealBreaks) < MaxBreaks
        /\ mealBreaks' = Append(mealBreaks, NewBreak(me.shift, clock))
        /\ Return(w, TRUE, MsgBreakStarted)
        /\ UNCHANGED <<policyRows, scheduledShifts, workShifts, editLogs, clock>>

\* end_meal_break lines 131-133
EbGetShift(w) ==
    LET me == workers[w]
        shift == GetOpenShift(me.employee)
    IN  /\ me.pc = "end_meal_break"
        /\ IF shift = NULL
           THEN Return(w, FALSE, MsgNoOpenShift)
           ELSE Goto(w, [me EXCEPT !.pc = "eb_break", !.shift = shift])
        /\ UNCHANGED <<policyRows, scheduledShifts, workShifts, mealBreaks, editLogs, clock>>

\* end_meal_break lines 135-137
EbGetBreak(w) ==
    LET me == workers[w]
        brk == GetOpenBreak(me.shift)
    IN  /\ me.pc = "eb_break"
        /\ IF brk = NULL
           THEN Return(w, FALSE, MsgNoActiveBreak)
           ELSE Goto(w, [me EXCEPT !.pc = "eb_save", !.brk = brk])
        /\ UNCHANGED <<policyRows, scheduledShifts, workShifts, mealBreaks, editLogs, clock>>

\* end_meal_break lines 139-145 and 150: brk.save(update_fields=["end_time"])
EbSave(w) ==
    LET me == workers[w]
    IN  /\ me.pc = "eb_save"
        /\ mealBreaks' = [mealBreaks EXCEPT ![me.brk].end_time = clock]
        /\ IF BreakTooShort(mealBreaks[me.brk].start_time, clock)
           THEN Goto(w, [me EXCEPT !.pc = "eb_flag"])
           ELSE Return(w, TRUE, MsgBreakEnded)
        /\ UNCHANGED <<policyRows, scheduledShifts, workShifts, editLogs, clock>>

\* end_meal_break lines 146-148: shift.save(update_fields=["status"])
EbFlag(w) ==
    LET me == workers[w]
    IN  /\ me.pc = "eb_flag"
        /\ workShifts' = [workShifts EXCEPT ![me.shift].status = FLAGGED]
        /\ Return(w, TRUE, MsgBreakEndedFlagged)
        /\ UNCHANGED <<policyRows, scheduledShifts, mealBreaks, editLogs, clock>>

\* clock_out lines 165-167: the shift is loaded with the status it has now
CoGetShift(w) ==
    LET me == workers[w]
        shift == GetOpenShift(me.employee)
    IN  /\ me.pc = "clock_out"
        /\ IF shift = NULL
           THEN Return(w, FALSE, MsgNoShiftToClockOut)
           ELSE Goto(w, [me EXCEPT !.pc = "co_break", !.shift = shift,
                                   !.status = workShifts[shift].status])
        /\ UNCHANGED <<policyRows, scheduledShifts, workShifts, mealBreaks, editLogs, clock>>

\* clock_out lines 169-170
CoGetBreak(w) ==
    LET me == workers[w]
    IN  /\ me.pc = "co_break"
        /\ IF GetOpenBreak(me.shift) # NULL
           THEN Return(w, FALSE, MsgEndBreakFirst)
           ELSE Goto(w, [me EXCEPT !.pc = "co_save"])
        /\ UNCHANGED <<policyRows, scheduledShifts, workShifts, mealBreaks, editLogs, clock>>

\* clock_out lines 172-178: shift.save(update_fields=["clock_out", "status"])
CoSave(w) ==
    LET me == workers[w]
    IN  /\ me.pc = "co_save"
        /\ workShifts' = [workShifts EXCEPT
                             ![me.shift].clock_out = clock,
                             ![me.shift].status = ClockOutStatus(me.status)]
        /\ Return(w, TRUE, MsgClockedOut)
        /\ UNCHANGED <<policyRows, scheduledShifts, mealBreaks, editLogs, clock>>

(***************************************************************************)
(* permissions.py: portal_admin_required around views.admin_schedule       *)
(***************************************************************************)
GroupNames == {"Admin", "Employee", "admin"}

\* request.user: AnonymousUser, or a logged-in user with its groups
AnonymousUser == [is_authenticated |-> FALSE, groups |-> {}]
PortalUsers ==
    {AnonymousUser} \cup
    {[is_authenticated |-> TRUE, groups |-> g] : g \in SUBSET GroupNames}

MsgPermissionDenied == "PermissionDenied"

\* raise PermissionDenied: the view is not entered and nothing is written
RaisePermissionDenied ==
    /\ last' = Result(FALSE, MsgPermissionDenied)
    /\ UNCHANGED <<policyRows, scheduledShifts, workShifts, mealBreaks, editLogs,
                   clock, workers>>

\* a slip: any logged-in user is let through
PortalAdminRequiredLoginOnly(user, view) ==
    IF ~user.is_authenticated THEN RaisePermissionDenied ELSE view

\* _wrapped, lines 23-28
PortalAdminRequired(user, view) ==
    IF ~user.is_authenticated
    THEN RaisePermissionDenied
    ELSE IF ~("Admin" \in user.groups)
    THEN RaisePermissionDenied
    ELSE view

\* views.admin_schedule: a GET, or a POST of either form
AdminSchedule ==
    \/ ViewSchedule
    \/ \E strict \in BOOLEAN, allow \in BOOLEAN,
          before \in GraceChoices, after \in GraceChoices :
            SavePolicy(strict, allow, before, after)
    \/ \E e \in Employees, date \in Dates, st \in StartTimes, et \in EndTimes,
          canceled \in BOOLEAN :
            SaveSchedule(e, date, st, et, canceled, "")

\* @portal_admin_required def admin_schedule(request)
PortalAdminSchedule(user) == PortalAdminRequired(user, AdminSchedule)

(***************************************************************************)
(* forms.py and admin.py: the Django admin change form of a WorkShift and  *)
(* of the TimeclockPolicy                                                  *)
(***************************************************************************)
Admins == {"admin"}

\* what the admin types in the edit_reason box; the form field strips it
Reasons == {"", " ", "late badge"}
\* a slip: the reason is taken as typed
StripNothing(reason) == reason

Strip(reason) == IF reason = " " THEN "" ELSE reason

\* the instants the admin types in the clock_in and clock_out boxes
AdminClockIns == {Hours(8) + Minutes(30)}
AdminLateClockIns == {Hours(17)}
AdminClockOuts == {NULL, Hours(8) + Minutes(45)}

MsgChronology == "Clock out must be after clock in."
MsgEditsDisabled == "Admin time edits are disabled by policy."
MsgReasonRequired == "Edit reason is required when changing times."
DefaultLogReason == "Admin edit"

\* str(old.clock_in), str(obj.clock_out): None prints as "None"
Str(t) == IF t = NULL THEN [kind |-> "None", at |-> 0]
                      ELSE [kind |-> "datetime", at |-> t]

\* forms.py line 49 and admin.py lines 138-141
TimesChanged(old, clockIn, clockOut) ==
    old.clock_in # clockIn \/ old.clock_out # clockOut

\* WorkShiftAdminForm.clean: the validation error, or "" when the form is valid
CleanError(old, clockIn, clockOut, reason) ==
    IF clockOut # NULL /\ clockOut <= clockIn THEN MsgChronology
    ELSE IF ~TimesChanged(old, clockIn, clockOut) THEN ""
    ELSE IF ~GetSolo.allow_admin_time_edits THEN MsgEditsDisabled
    ELSE IF GetSolo.require_admin_edit_reason /\ Strip(reason) = ""
         THEN MsgReasonRequired
    ELSE ""

\* a slip: one entry per edit, for the first changed field only
ChangedFieldsFirstOnly(old, clockIn, clockOut) ==
    IF old.clock_in # clockIn
    THEN <<[field_name |-> "clock_in", old_value |-> Str(old.clock_in),
            new_value |-> Str(clockIn)]>>
    ELSE IF old.clock_out # clockOut
    THEN <<[field_name |-> "clock_out", old_value |-> Str(old.clock_out),
            new_value |-> Str(clockOut)]>>
    ELSE <<>>

\* save_model lines 132-141: one entry per changed time field
ChangedFields(old, clockIn, clockOut) ==
    (IF old.clock_in # clockIn
     THEN <<[field_name |-> "clock_in", old_value |-> Str(old.clock_in),
             new_value |-> Str(clockIn)]>>
     ELSE <<>>)
    \o
    (IF old.clock_out # clockOut
     THEN <<[field_name |-> "clock_out", old_value |-> Str(old.clock_out),
             new_value |-> Str(clockOut)]>>
     ELSE <<>>)

\* save_model lines 143-149: the row that is saved
EditedShift(old, clockIn, clockOut, status, reason, user) ==
    IF TimesChanged(old, clockIn, clockOut)
    THEN [old EXCEPT !.clock_in = clockIn, !.clock_out = clockOut,
                     !.status = EDITED, !.edited_by = user,
                     !.edit_reason = Strip(reason)]
    ELSE [old EXCEPT !.status = status, !.edit_reason = Strip(reason)]

\* a slip: the audit rows take the stripped reason as it is, empty or not
LogRowsReasonAsStored(s, changed, reason, user) ==
    [k \in 1..Len(changed) |->
        [work_shift |-> s,
         edited_by |-> user,
         reason |-> Strip(reason),
         field_name |-> changed[k].field_name,
         old_value |-> changed[k].old_value,
         new_value |-> changed[k].new_value]]

\* save_model lines 152-160: the audit rows
LogRows(s, changed, reason, user) ==
    [k \in 1..Len(changed) |->
        [work_shift |-> s,
         edited_by |-> user,
         reason |-> IF Strip(reason) = "" THEN DefaultLogReason ELSE Strip(reason),
         field_name |-> changed[k].field_name,
         old_value |-> changed[k].old_value,
         new_value |-> changed[k].new_value]]

\* a slip: the audit rows of the edit replace the log instead of extending it
AdminEditRewritingLog(s, clockIn, clockOut, status, reason, user) ==
    LET old == workShifts[s]
        err == CleanError(old, clockIn, clockOut, reason)
        consulted == ~(clockOut # NULL /\ clockOut <= clockIn)
                        /\ TimesChanged(old, clockIn, clockOut)
        changed == ChangedFields(old, clockIn, clockOut)
    IN  /\ s \in DOMAIN workShifts
        /\ policyRows' = IF consulted THEN AfterGetSolo ELSE policyRows
        /\ UNCHANGED <<scheduledShifts, mealBreaks, clock, workers>>
        /\ IF err # ""
           THEN /\ last' = Result(FALSE, err)
                /\ UNCHANGED <<workShifts, editLogs>>
           ELSE /\ Len(editLogs) + Len(changed) <= MaxLogs
                /\ workShifts' =
                       [workShifts EXCEPT
                           ![s] = EditedShift(old, clockIn, clockOut, status, reason, user)]
                /\ editLogs' = LogRows(s, changed, reason, user)
                /\ last' = NoResult

\* an admin submits the change form of shift s
AdminEdit(s, clockIn, clockOut, status, reason, user) ==
    LET old == workShifts[s]
        err == CleanError(old, clockIn, clockOut, reason)
        consulted == ~(clockOut # NULL /\ clockOut <= clockIn)
                        /\ TimesChanged(old, clockIn, clockOut)
        changed == ChangedFields(old, clockIn, clockOut)
    IN  /\ s \in DOMAIN workShifts
        /\ policyRows' = IF consulted THEN AfterGetSolo ELSE policyRows
        /\ UNCHANGED <<scheduledShifts, mealBreaks, clock, workers>>
        /\ IF err # ""
           THEN /\ last' = Result(FALSE, err)
                /\ UNCHANGED <<workShifts, editLogs>>
           ELSE /\ Len(editLogs) + Len(changed) <= MaxLogs
                /\ workShifts' =
                       [workShifts EXCEPT
                           ![s] = EditedShift(old, clockIn, clockOut, status, reason, user)]
                /\ editLogs' = editLogs \o LogRows(s, changed, reason, user)
                /\ last' = NoResult

\* TimeclockPolicyAdmin.changelist_view: get_or_create(pk=1), then a redirect
\* to the change page of that row
PolicyChangelist ==
    /\ policyRows' = AfterGetSolo
    /\ last' = NoResult
    /\ UNCHANGED <<scheduledShifts, workShifts, mealBreaks, editLogs, clock, workers>>

\* an admin saves the TimeclockPolicy change form, which has all six fields,
\* on the row the changelist redirected to
AdminSavePolicy(strict, allow, before, after, allowEdits, requireReason) ==
    /\ policyRows' =
           (AfterGetSolo \ {GetSolo}) \cup
           {[pk |-> GetSolo.pk,
             strict_schedule_enforced |-> strict,
             allow_unscheduled_clock_in_when_not_strict |-> allow,
             grace_minutes_before_start |-> before,
             grace_minutes_after_start |-> after,
             allow_admin_time_edits |-> allowEdits,
             require_admin_edit_reason |-> requireReason]}
    /\ policyRows' # policyRows
    /\ last' = NoResult
    /\ UNCHANGED <<scheduledShifts, workShifts, mealBreaks, editLogs, clock, workers>>

\* TimeclockPolicyAdmin.has_add_permission
HasAddPermission == policyRows = {}

\* the AutoField value of the next TimeclockPolicy row the admin adds
NextPolicyPk ==
    IF policyRows = {} THEN 1
    ELSE 1 + CHOOSE n \in {r.pk : r \in policyRows} :
                 \A r \in policyRows : r.pk <= n

\* an admin saves the TimeclockPolicy add form, offered while the table is empty
AdminAddPolicy(strict, allow, before, after, allowEdits, requireReason) ==
    /\ HasAddPermission
    /\ policyRows' =
           policyRows \cup
           {[pk |-> NextPolicyPk,
             strict_schedule_enforced |-> strict,
             allow_unscheduled_clock_in_when_not_strict |-> allow,
             grace_minutes_before_start |-> before,
             grace_minutes_after_start |-> after,
             allow_admin_time_edits |-> allowEdits,
             require_admin_edit_reason |-> requireReason]}
    /\ last' = NoResult
    /\ UNCHANGED <<scheduledShifts, workShifts, mealBreaks, editLogs, clock, workers>>

(***************************************************************************)
(* The clock                                                               *)
(***************************************************************************)
Tick ==
    /\ clock + Tick1 <= ClockEnd
    /\ clock' = clock + Tick1
    /\ last' = NoResult
    /\ UNCHANGED <<policyRows, scheduledShifts, workShifts, mealBreaks, editLogs, workers>>

Init ==
    /\ policyRows = {}
    /\ scheduledShifts = <<>>
    /\ workShifts = <<>>
    /\ mealBreaks = <<>>
    /\ editLogs = <<>>
    /\ clock = ClockStart
    /\ workers = [w \in Workers |-> Idle]
    /\ last = NoResult

(***************************************************************************)
(* Spec: the four services for two employees over the whole shift          *)
(* lifecycle.  The portal switches strict mode on and off and schedules    *)
(* e1 at any time; e2 stays unscheduled.                                   *)
(***************************************************************************)
Lifecycle ==
    \/ \E e \in Employees, d1 \in Skews, d2 \in Skews : ClockIn(e, d1, d2)
    \/ \E e \in Employees : StartMealBreak(e)
    \/ \E e \in Employees : EndMealBreak(e)
    \/ \E e \in Employees : ClockOut(e)

Next ==
    \/ Tick
    \/ Lifecycle
    \/ \E strict \in BOOLEAN : SavePolicy(strict, TRUE, 0, 0)
    \/ \E st \in StartTimes, et \in EndTimes : SaveSchedule("e1", 0, st, et, FALSE, "")

Spec == Init /\ [][Next]_vars

(***************************************************************************)
(* SpecPolicy: clock_in under every policy and schedule the portal can     *)
(* save, at any time.                                                      *)
(***************************************************************************)
NextPolicy ==
    \/ Tick
    \/ \E e \in Employees, d1 \in Skews, d2 \in Skews : ClockIn(e, d1, d2)
    \/ \E strict \in BOOLEAN, allow \in BOOLEAN,
          before \in GraceChoices, after \in GraceChoices :
            SavePolicy(strict, allow, before, after)
    \/ \E e \in Employees, date \in Dates, st \in StartTimes, et \in EndTimes,
          canceled \in BOOLEAN :
            SaveSchedule(e, date, st, et, canceled, "")

SpecPolicy == Init /\ [][NextPolicy]_vars

(***************************************************************************)
(* SpecClockInRace: clock_in requests of the workers interleave statement  *)
(* by statement while the clock runs and the portal saves.                 *)
(***************************************************************************)
NextClockInRace ==
    \/ Tick
    \/ \E w \in Workers, e \in Employees : Begin(w, e, "clock_in")
    \/ \E w \in Workers :
          \/ CiGetSolo(w) \/ CiExists(w) \/ CiToday(w) \/ CiNow(w)
          \/ CiScheduled(w) \/ CiCreate(w) \/ CiFlag(w)
    \/ \E strict \in BOOLEAN : SavePolicy(strict, TRUE, 0, 0)
    \/ \E st \in StartTimes, et \in EndTimes : SaveSchedule("e1", 0, st, et, FALSE, "")

SpecClockInRace == Init /\ [][NextClockInRace]_vars

(***************************************************************************)
(* SpecBreakRace: start_meal_break requests of the workers interleave      *)
(* statement by statement; clock_in runs to completion.                    *)
(***************************************************************************)
NextBreakRace ==
    \/ Tick
    \/ \E e \in Employees, d1 \in Skews, d2 \in Skews : ClockIn(e, d1, d2)
    \/ \E w \in Workers, e \in Employees : Begin(w, e, "start_meal_break")
    \/ \E w \in Workers : SbGetShift(w) \/ SbGetBreak(w) \/ SbCreate(w)
    \/ \E strict \in BOOLEAN : SavePolicy(strict, TRUE, 0, 0)
    \/ \E st \in StartTimes, et \in EndTimes : SaveSchedule("e1", 0, st, et, FALSE, "")

SpecBreakRace == Init /\ [][NextBreakRace]_vars

(***************************************************************************)
(* SpecAdmin: clock in and clock out for two employees while an admin      *)
(* edits shifts and the policy in the Django admin, all within one instant *)
(* of the clock.  e1 can be scheduled; e2 stays unscheduled.               *)
(***************************************************************************)
NextAdmin ==
    \/ \E e \in Employees : Len(workShifts) < MaxAdminShifts /\ ClockIn(e, 0, 0)
    \/ \E e \in Employees : ClockOut(e)
    \/ \E s \in 1..MaxShifts, clockIn \in AdminClockIns, clockOut \in AdminClockOuts,
          status \in Status, reason \in Reasons, user \in Admins :
            \/ AdminEdit(s, clockIn, clockOut, status, reason, user)
            \/ /\ s \in DOMAIN workShifts
               /\ AdminEdit(s, workShifts[s].clock_in, clockOut, status, reason, user)
            \/ /\ s \in DOMAIN workShifts
               /\ AdminEdit(s, clockIn, workShifts[s].clock_out, status, reason, user)
            \/ /\ s \in DOMAIN workShifts
               /\ AdminEdit(s, workShifts[s].clock_in, workShifts[s].clock_out,
                            status, reason, user)
    \/ \E strict \in BOOLEAN, allowEdits \in BOOLEAN, requireReason \in BOOLEAN :
          AdminSavePolicy(strict, TRUE, 0, 0, allowEdits, requireReason)
    \/ \E st \in StartTimes, et \in EndTimes : SaveSchedule("e1", 0, st, et, FALSE, "")

SpecAdmin == Init /\ [][NextAdmin]_vars

(***************************************************************************)
(* What the claims speak of, read off the tables                           *)
(***************************************************************************)
\* the employee's WorkShift rows with null clockOut
(***************************************************************************)
(* SpecBreakStatus: one shift with its meal breaks while the clock runs    *)
(* and an admin sets the shift's status in the change form without         *)
(* touching its times.  Strict mode is switched off in the portal, so the  *)
(* unscheduled clock in is accepted.                                       *)
(***************************************************************************)
NextBreakStatus ==
    \/ Tick
    \/ SavePolicy(FALSE, TRUE, 0, 0)
    \/ \E e \in Employees : Len(workShifts) < MaxAdminShifts /\ ClockIn(e, 0, 0)
    \/ \E e \in Employees : StartMealBreak(e)
    \/ \E e \in Employees : EndMealBreak(e)
    \/ \E s \in DOMAIN workShifts, status \in Status, user \in Admins :
          AdminEdit(s, workShifts[s].clock_in, workShifts[s].clock_out,
                    status, "", user)

SpecBreakStatus == Init /\ [][NextBreakStatus]_vars

(***************************************************************************)
(* SpecChronology: one shift is clocked in and out while the clock runs    *)
(* and an admin moves its clock_in, also to an instant still to come, or   *)
(* rewrites its clock_out.                                                 *)
(***************************************************************************)
NextChronology ==
    \/ Tick
    \/ SavePolicy(FALSE, TRUE, 0, 0)
    \/ \E e \in Employees : Len(workShifts) < MaxAdminShifts /\ ClockIn(e, 0, 0)
    \/ \E e \in Employees : ClockOut(e)
    \/ \E s \in DOMAIN workShifts, clockIn \in AdminClockIns \cup AdminLateClockIns,
          reason \in Reasons, user \in Admins :
            AdminEdit(s, clockIn, workShifts[s].clock_out,
                      workShifts[s].status, reason, user)
    \/ \E s \in DOMAIN workShifts, clockOut \in AdminClockOuts,
          reason \in Reasons, user \in Admins :
            AdminEdit(s, workShifts[s].clock_in, clockOut,
                      workShifts[s].status, reason, user)

SpecChronology == Init /\ [][NextChronology]_vars

(***************************************************************************)
(* SpecAdminEdit: one unscheduled shift is clocked in and out while an     *)
(* admin rewrites its times in the change form, with and without a reason, *)
(* and switches allow_admin_time_edits and require_admin_edit_reason on    *)
(* and off, all within one instant of the clock.                           *)
(***************************************************************************)
NextAdminEdit ==
    \/ \E allowEdits \in BOOLEAN, requireReason \in BOOLEAN :
          AdminSavePolicy(FALSE, TRUE, 0, 0, allowEdits, requireReason)
    \/ \E e \in Employees : Len(workShifts) < MaxAdminShifts /\ ClockIn(e, 0, 0)
    \/ \E e \in Employees : ClockOut(e)
    \/ \E s \in DOMAIN workShifts :
       \E clockIn \in AdminClockIns \cup {workShifts[s].clock_in},
          clockOut \in AdminClockOuts \cup {workShifts[s].clock_out},
          reason \in Reasons, user \in Admins :
            AdminEdit(s, clockIn, clockOut, workShifts[s].status, reason, user)

SpecAdminEdit == Init /\ [][NextAdminEdit]_vars

(***************************************************************************)
(* SpecAudit: one unscheduled shift with its meal breaks is worked through *)
(* the four services while an admin rewrites its times in the change form  *)
(* and switches the two edit settings, all within one instant of the       *)
(* clock.                                                                  *)
(***************************************************************************)
NextAudit ==
    \/ \E allowEdits \in BOOLEAN, requireReason \in BOOLEAN :
          AdminSavePolicy(FALSE, TRUE, 0, 0, allowEdits, requireReason)
    \/ \E e \in Employees : Len(workShifts) < MaxAdminShifts /\ ClockIn(e, 0, 0)
    \/ \E e \in Employees : StartMealBreak(e)
    \/ \E e \in Employees : EndMealBreak(e)
    \/ \E e \in Employees : ClockOut(e)
    \/ \E s \in DOMAIN workShifts :
       \E clockIn \in AdminClockIns \cup {workShifts[s].clock_in},
          clockOut \in AdminClockOuts \cup {workShifts[s].clock_out},
          reason \in Reasons, user \in Admins :
            AdminEdit(s, clockIn, clockOut, workShifts[s].status, reason, user)

SpecAudit == Init /\ [][NextAudit]_vars

(***************************************************************************)
(* SpecReopen: shifts are clocked in and out while the clock runs and an   *)
(* admin clears the clock_out of a shift in the change form, giving a      *)
(* reason.                                                                 *)
(***************************************************************************)
NextReopen ==
    \/ Tick
    \/ SavePolicy(FALSE, TRUE, 0, 0)
    \/ \E e \in Employees : ClockIn(e, 0, 0)
    \/ \E e \in Employees : ClockOut(e)
    \/ \E s \in DOMAIN workShifts, user \in Admins :
          AdminEdit(s, workShifts[s].clock_in, NULL, workShifts[s].status,
                    "late badge", user)

SpecReopen == Init /\ [][NextReopen]_vars

(***************************************************************************)
(* SpecStatements: the clock_in and end_meal_break requests of employee e1 *)
(* run statement by statement on the workers, each save committed as it is *)
(* made, while the clock runs; start_meal_break runs to completion.        *)
(* Strict mode is switched off in the portal, and e1 is scheduled at some  *)
(* point or never.                                                         *)
(***************************************************************************)
NextStatements ==
    \/ Tick
    \/ SavePolicy(FALSE, TRUE, 0, 0)
    \/ \E st \in StartTimes, et \in EndTimes : SaveSchedule("e1", 0, st, et, FALSE, "")
    \/ \E w \in Workers : Begin(w, "e1", "clock_in")
    \/ \E w \in Workers :
          \/ CiGetSolo(w) \/ CiExists(w) \/ CiToday(w) \/ CiNow(w)
          \/ CiScheduled(w) \/ CiCreate(w) \/ CiFlag(w)
    \/ StartMealBreak("e1")
    \/ \E w \in Workers : Begin(w, "e1", "end_meal_break")
    \/ \E w \in Workers : EbGetShift(w) \/ EbGetBreak(w) \/ EbSave(w) \/ EbFlag(w)

SpecStatements == Init /\ [][NextStatements]_vars

(***************************************************************************)
(* SpecSchedule: the portal's schedule form is submitted for two employees *)
(* and two dates, canceled or not, with and without notes.                 *)
(***************************************************************************)
ScheduleDates == {0, 1}
ScheduleNotes == {"", "swap"}

NextSchedule ==
    \E e \in Employees, date \in ScheduleDates, st \in StartTimes, et \in EndTimes,
       canceled \in BOOLEAN, notes \in ScheduleNotes :
        SaveSchedule(e, date, st, et, canceled, notes)

SpecSchedule == Init /\ [][NextSchedule]_vars

(***************************************************************************)
(* SpecSingleton: every path to the TimeclockPolicy table: lookups by the  *)
(* portal page, the admin changelist and clock_in, saves from the portal   *)
(* and the admin change form, and the admin add form.                      *)
(***************************************************************************)
NextSingleton ==
    \/ ViewSchedule
    \/ PolicyChangelist
    \/ \E e \in Employees : ClockIn(e, 0, 0)
    \/ \E e \in Employees : ClockOut(e)
    \/ \E strict \in BOOLEAN, allow \in BOOLEAN,
          before \in GraceChoices, after \in GraceChoices :
            SavePolicy(strict, allow, before, after)
    \/ \E strict \in BOOLEAN, allow \in BOOLEAN, before \in GraceChoices,
          allowEdits \in BOOLEAN, requireReason \in BOOLEAN :
            \/ AdminSavePolicy(strict, allow, before, 0, allowEdits, requireReason)
            \/ AdminAddPolicy(strict, allow, before, 0, allowEdits, requireReason)

SpecSingleton == Init /\ [][NextSingleton]_vars

(***************************************************************************)
(* SpecDurations: the durations of one shift of e1 an admin has edited,    *)
(* over every choice of its times and of up to MaxBreaks meal breaks the   *)
(* services can have recorded, at instants that are not whole seconds      *)
(* apart.                                                                  *)
(***************************************************************************)
DurationInstants ==
    {ClockStart, ClockStart + 1600, ClockStart + 3600,
     ClockStart + Hours(2) + Minutes(5) + 59900}

DrawnShift(clockIn, clockOut) ==
    [NewShift("e1", NULL, clockIn) EXCEPT
        !.clock_out = clockOut, !.status = EDITED,
        !.edited_by = "admin", !.edit_reason = "late badge"]

DrawnBreak ==
    {b \in [shift : {1}, start_time : DurationInstants,
            end_time : DurationInstants \cup {NULL}] :
        b.end_time = NULL \/ b.start_time <= b.end_time}

DrawnBreaks ==
    {bs \in UNION {[1..n -> DrawnBreak] : n \in 0..MaxBreaks} :
        Cardinality({i \in DOMAIN bs : bs[i].end_time = NULL}) <= 1}

InitDurations ==
    /\ policyRows = {}
    /\ scheduledShifts = <<>>
    /\ \E clockIn \in DurationInstants, clockOut \in DurationInstants \cup {NULL} :
          workShifts = <<DrawnShift(clockIn, clockOut)>>
    /\ mealBreaks \in DrawnBreaks
    /\ editLogs = <<>>
    /\ clock = ClockStart + Hours(3)
    /\ workers = [w \in Workers |-> Idle]
    /\ last = NoResult

NextDurations ==
    \/ \E s \in 1..MaxShifts : TotalHhmm(s)
    \/ \E s \in 1..MaxShifts : BreaksHhmm(s)
    \/ \E s \in 1..MaxShifts : WorkedHhmm(s)

SpecDurations == InitDurations /\ [][NextDurations]_vars

(***************************************************************************)
(* SpecPortal: anyone requests the portal's schedule page, logged in or    *)
(* not, in any combination of groups.                                      *)
(***************************************************************************)
NextPortal == \E user \in PortalUsers : PortalAdminSchedule(user)

SpecPortal == Init /\ [][NextPortal]_vars

(***************************************************************************)
(* SpecFormat: fmt_hhmm over every minute of the first hours, at the first *)
(* and at the last second of the minute, and at ten and a hundred hours.   *)
(***************************************************************************)
FmtSeconds ==
    {h * 3600 + m * 60 + sec : h \in 0..MaxHours, m \in 0..59, sec \in {0, 59}}
        \cup {35999, 36000, 36059, 360000, 360659}

NextFormat == \E seconds \in FmtSeconds : CallFmtHhmm(seconds)

SpecFormat == Init /\ [][NextFormat]_vars

(***************************************************************************)
(* SpecResave: one shift is clocked in and, at a later reading of the      *)
(* clock, out, while an admin moves its clock_in (also to an instant still *)
(* to come), saves its change form with both times as stored, and switches *)
(* allow_admin_time_edits and require_admin_edit_reason on and off.        *)
(***************************************************************************)
NextResave ==
    \/ Tick
    \/ \E allowEdits \in BOOLEAN, requireReason \in BOOLEAN :
          AdminSavePolicy(FALSE, TRUE, 0, 0, allowEdits, requireReason)
    \/ \E e \in Employees : Len(workShifts) < MaxAdminShifts /\ ClockIn(e, 0, 0)
    \/ \E e \in Employees :
          /\ \A s \in OpenShiftIds(e) : workShifts[s].clock_in # clock
          /\ ClockOut(e)
    \/ \E s \in DOMAIN workShifts, clockIn \in AdminClockIns \cup AdminLateClockIns,
          reason \in Reasons, user \in Admins :
            AdminEdit(s, clockIn, workShifts[s].clock_out,
                      workShifts[s].status, reason, user)
    \/ \E s \in DOMAIN workShifts, status \in Status, reason \in Reasons,
          user \in Admins :
            AdminEdit(s, workShifts[s].clock_in, workShifts[s].clock_out,
                      status, reason, user)

SpecResave == Init /\ [][NextResave]_vars

(***************************************************************************)
(* SpecRejections: the four services for e1 under every policy and         *)
(* schedule the portal can save, at any time.                              *)
(***************************************************************************)
NextRejections ==
    \/ Tick
    \/ \E d1 \in Skews, d2 \in Skews : ClockIn("e1", d1, d2)
    \/ StartMealBreak("e1")
    \/ EndMealBreak("e1")
    \/ ClockOut("e1")
    \/ \E strict \in BOOLEAN, allow \in BOOLEAN,
          before \in GraceChoices, after \in GraceChoices :
            SavePolicy(strict, allow, before, after)
    \/ \E st \in StartTimes, et \in EndTimes, canceled \in BOOLEAN :
          SaveSchedule("e1", 0, st, et, canceled, "")

SpecRejections == Init /\ [][NextRejections]_vars

OpenShiftsOf(e) ==
    {i \in DOMAIN workShifts :
        workShifts[i].employee = e /\ workShifts[i].clock_out = NULL}

\* the shift's MealBreak rows with null endTime
OpenBreaksOf(s) ==
    {b \in DOMAIN mealBreaks :
        mealBreaks[b].shift = s /\ mealBreaks[b].end_time = NULL}

\* the policy in force: the stored row, or the defaults a lookup would create
PolicyInForce ==
    IF policyRows = {} THEN DefaultPolicy ELSE CHOOSE r \in policyRows : TRUE

\* the employee's non-canceled ScheduledShift rows for the date
SchedulesOf(e, date) ==
    {i \in DOMAIN scheduledShifts :
        /\ scheduledShifts[i].employee = e
        /\ scheduledShifts[i].date = date
        /\ scheduledShifts[i].is_canceled = FALSE}

\* the step is a clockIn call of the employee, run to completion
ClockInBy(e) == \E d1 \in Skews, d2 \in Skews : ClockIn(e, d1, d2)

(***************************************************************************)
(* C1: after any sequence of clockIn, clockOut, startMealBreak and         *)
(* endMealBreak calls, each run to completion, every employee has at most  *)
(* one WorkShift with null clockOut; and a clockIn by an employee who      *)
(* already has an open shift returns (false, "You already have an open     *)
(* shift.") and creates no WorkShift.                                      *)
(***************************************************************************)
C1_AtMostOneOpenShift ==
    /\ [](\A e \in Employees : Cardinality(OpenShiftsOf(e)) <= 1)
    /\ [][\A e \in Employees :
            (OpenShiftsOf(e) # {} /\ ClockInBy(e))
                => /\ last' = Result(FALSE, MsgAlreadyOpen)
                   /\ workShifts' = workShifts]_vars

\* a clockIn has just been refused to an employee who holds one open shift
C1_Witness ==
    /\ last = Result(FALSE, MsgAlreadyOpen)
    /\ \E e \in Employees : Cardinality(OpenShiftsOf(e)) = 1

(***************************************************************************)
(* C2: when two clockIn requests of one employee run concurrently, their   *)
(* statements interleaved, no reachable state has two WorkShifts with null *)
(* clockOut for that employee.                                             *)
(***************************************************************************)
C2_AtMostOneOpenShiftConcurrent ==
    \A e \in Employees :
        \A i, j \in OpenShiftsOf(e) : i = j

(***************************************************************************)
(* C3: after any sequence of lifecycle operations run to completion, every *)
(* WorkShift has at most one MealBreak with null endTime; and              *)
(* startMealBreak on a shift that already has an open break returns        *)
(* (false, "Meal break already active.") and creates no MealBreak.         *)
(***************************************************************************)
C3_AtMostOneOpenBreak ==
    /\ [](\A s \in DOMAIN workShifts : Cardinality(OpenBreaksOf(s)) <= 1)
    /\ [][\A e \in Employees :
            (/\ StartMealBreak(e)
             /\ \E s \in OpenShiftsOf(e) : OpenBreaksOf(s) # {})
                => /\ last' = Result(FALSE, MsgBreakActive)
                   /\ mealBreaks' = mealBreaks]_vars

\* a startMealBreak has just been refused on a shift that holds one open break
C3_Witness ==
    /\ last = Result(FALSE, MsgBreakActive)
    /\ \E s \in DOMAIN workShifts :
          workShifts[s].clock_out = NULL /\ Cardinality(OpenBreaksOf(s)) = 1

(***************************************************************************)
(* C4: when two startMealBreak requests of one employee run concurrently,  *)
(* their statements interleaved, no reachable state has two MealBreaks     *)
(* with null endTime on the same WorkShift.                                *)
(***************************************************************************)
C4_AtMostOneOpenBreakConcurrent ==
    \A s \in DOMAIN workShifts :
        \A a, b \in OpenBreaksOf(s) : a = b

\* today, as the call reads it
Today == LocalDate(clock)

\* the start of the employee's non-canceled schedule for today, as an instant
ScheduledStartOf(e) ==
    Today * 24 * 3600 * MillisPerSecond
        + scheduledShifts[CHOOSE i \in SchedulesOf(e, Today) : TRUE].start_time

GraceBeforeMillis == PolicyInForce.grace_minutes_before_start * 60 * MillisPerSecond
GraceAfterMillis == PolicyInForce.grace_minutes_after_start * 60 * MillisPerSecond

\* the employee has a ScheduledShift row for today, and every one is canceled
OnlyCanceledToday(e) ==
    /\ SchedulesOf(e, Today) = {}
    /\ \E i \in DOMAIN scheduledShifts :
          scheduledShifts[i].employee = e /\ scheduledShifts[i].date = Today

\* the WorkShift row created last
NewestShift == workShifts[Len(workShifts)]

(***************************************************************************)
(* C5 as claimed: with strict mode on, clockIn for an employee who has no  *)
(* non-canceled ScheduledShift for today returns (false, "No scheduled     *)
(* shift today...") and creates no WorkShift, whatever the grace values    *)
(* and the allowUnscheduled flag are.                                      *)
(***************************************************************************)
C5_StrictNoScheduleRejected_AsClaimed ==
    [][\A e \in Employees :
          (/\ ClockInBy(e)
           /\ PolicyInForce.strict_schedule_enforced
           /\ SchedulesOf(e, Today) = {})
              => /\ last' = Result(FALSE, MsgNoSchedule)
                 /\ workShifts' = workShifts]_vars

(***************************************************************************)
(* C5 amended: with strict mode on, clockIn for an employee who has no     *)
(* non-canceled ScheduledShift for today creates no WorkShift, whatever    *)
(* the grace values and the allowUnscheduled flag are; it returns (false,  *)
(* "No scheduled shift today...") when the employee has no open shift, and *)
(* (false, "You already have an open shift.") when the employee has one.   *)
(***************************************************************************)
C5_StrictNoScheduleRejected ==
    [][\A e \in Employees :
          (/\ ClockInBy(e)
           /\ PolicyInForce.strict_schedule_enforced
           /\ SchedulesOf(e, Today) = {})
              => /\ workShifts' = workShifts
                 /\ last' = IF OpenShiftsOf(e) = {}
                            THEN Result(FALSE, MsgNoSchedule)
                            ELSE Result(FALSE, MsgAlreadyOpen)]_vars

\* "No scheduled shift" has just been returned while every employee's only
\* schedule for today is canceled, grace is set and unscheduled clock in is off
C5_Witness ==
    /\ last = Result(FALSE, MsgNoSchedule)
    /\ PolicyInForce.strict_schedule_enforced
    /\ ~PolicyInForce.allow_unscheduled_clock_in_when_not_strict
    /\ PolicyInForce.grace_minutes_before_start # 0
    /\ \A e \in Employees : OnlyCanceledToday(e)

(***************************************************************************)
(* C6 as claimed: with strict mode on, a non-canceled schedule for today   *)
(* and at least one grace value nonzero, clockIn succeeds if and only if   *)
(* scheduledStart - graceBefore <= now <= scheduledStart + graceAfter;     *)
(* otherwise it returns (false, "Clock in outside allowed time window.")   *)
(* and creates no WorkShift.                                               *)
(***************************************************************************)
C6_GraceWindow_AsClaimed ==
    [][\A e \in Employees, d1 \in Skews, d2 \in Skews :
          (/\ ClockIn(e, d1, d2)
           /\ PolicyInForce.strict_schedule_enforced
           /\ SchedulesOf(e, Today) # {}
           /\ (GraceBeforeMillis # 0 \/ GraceAfterMillis # 0))
              => IF /\ ScheduledStartOf(e) - GraceBeforeMillis <= clock + d1 * Tick1
                    /\ clock + d1 * Tick1 <= ScheduledStartOf(e) + GraceAfterMillis
                 THEN /\ last'.ok
                      /\ Len(workShifts') = Len(workShifts) + 1
                 ELSE /\ last' = Result(FALSE, MsgOutsideWindow)
                      /\ workShifts' = workShifts]_vars

(***************************************************************************)
(* C6 amended: with strict mode on, a non-canceled schedule for today and  *)
(* at least one grace value nonzero, clockIn by an employee with no open   *)
(* shift succeeds if and only if scheduledStart - graceBefore <= now <=    *)
(* scheduledStart + graceAfter, both bounds inclusive; otherwise it        *)
(* returns (false, "Clock in outside allowed time window.") and creates no *)
(* WorkShift.  now is the instant the call reads with localtime().         *)
(***************************************************************************)
C6_GraceWindow ==
    [][\A e \in Employees, d1 \in Skews, d2 \in Skews :
          (/\ ClockIn(e, d1, d2)
           /\ OpenShiftsOf(e) = {}
           /\ PolicyInForce.strict_schedule_enforced
           /\ SchedulesOf(e, Today) # {}
           /\ (GraceBeforeMillis # 0 \/ GraceAfterMillis # 0))
              => IF /\ ScheduledStartOf(e) - GraceBeforeMillis <= clock + d1 * Tick1
                    /\ clock + d1 * Tick1 <= ScheduledStartOf(e) + GraceAfterMillis
                 THEN /\ last'.ok
                      /\ Len(workShifts') = Len(workShifts) + 1
                 ELSE /\ last' = Result(FALSE, MsgOutsideWindow)
                      /\ workShifts' = workShifts]_vars

\* a clockIn has just succeeded exactly at scheduledStart - graceBefore
C6_Witness ==
    /\ last = Result(TRUE, MsgClockedIn)
    /\ PolicyInForce.strict_schedule_enforced
    /\ GraceBeforeMillis # 0
    /\ SchedulesOf(NewestShift.employee, Today) # {}
    /\ NewestShift.clock_in = ScheduledStartOf(NewestShift.employee) - GraceBeforeMillis

(***************************************************************************)
(* C7: with strict mode on, a non-canceled schedule for today and both     *)
(* grace values 0, clockIn by an employee with no open shift succeeds at   *)
(* any time of day, creating a shift with status OPEN linked to that       *)
(* schedule.                                                               *)
(***************************************************************************)
C7_ZeroGraceNoWindow ==
    [][\A e \in Employees :
          (/\ ClockInBy(e)
           /\ OpenShiftsOf(e) = {}
           /\ PolicyInForce.strict_schedule_enforced
           /\ SchedulesOf(e, Today) # {}
           /\ GraceBeforeMillis = 0 /\ GraceAfterMillis = 0)
              => /\ last' = Result(TRUE, MsgClockedIn)
                 /\ Len(workShifts') = Len(workShifts) + 1
                 /\ SubSeq(workShifts', 1, Len(workShifts)) = workShifts
                 /\ NewestShift'.employee = e
                 /\ NewestShift'.status = OPEN
                 /\ NewestShift'.clock_out = NULL
                 /\ NewestShift'.scheduled_shift \in SchedulesOf(e, Today)]_vars

\* a clockIn has just succeeded before the scheduled start with both grace
\* values 0
C7_Witness ==
    /\ last = Result(TRUE, MsgClockedIn)
    /\ PolicyInForce.strict_schedule_enforced
    /\ GraceBeforeMillis = 0 /\ GraceAfterMillis = 0
    /\ SchedulesOf(NewestShift.employee, Today) # {}
    /\ NewestShift.status = OPEN
    /\ NewestShift.clock_in < ScheduledStartOf(NewestShift.employee)

(***************************************************************************)
(* C8: with strict mode off, clockIn by an employee with no open shift is  *)
(* rejected with (false, "Unscheduled clock in not allowed by policy.")    *)
(* and no WorkShift created exactly when there is no non-canceled schedule *)
(* for today and allowUnscheduledClockInWhenNotStrict is false; in every   *)
(* other non-strict case it succeeds, whatever the grace values and the    *)
(* time are.                                                               *)
(***************************************************************************)
C8_NonStrict ==
    [][\A e \in Employees :
          (/\ ClockInBy(e)
           /\ OpenShiftsOf(e) = {}
           /\ ~PolicyInForce.strict_schedule_enforced)
              => IF /\ SchedulesOf(e, Today) = {}
                    /\ ~PolicyInForce.allow_unscheduled_clock_in_when_not_strict
                 THEN /\ last' = Result(FALSE, MsgUnscheduled)
                      /\ workShifts' = workShifts
                 ELSE /\ last'.ok
                      /\ Len(workShifts') = Len(workShifts) + 1]_vars

\* with strict mode off and a grace value set, a scheduled employee has just
\* clocked in before the window opens
C8_Witness ==
    /\ last = Result(TRUE, MsgClockedIn)
    /\ ~PolicyInForce.strict_schedule_enforced
    /\ GraceAfterMillis # 0
    /\ SchedulesOf(NewestShift.employee, Today) # {}
    /\ NewestShift.clock_in < ScheduledStartOf(NewestShift.employee) - GraceBeforeMillis

(***************************************************************************)
(* C9: every successful clockIn creates exactly one WorkShift, with null   *)
(* clockOut; when no non-canceled schedule was found the shift has         *)
(* scheduledShift = null and status FLAGGED and the message says it was    *)
(* flagged; when one was found the shift is linked to it, has status OPEN  *)
(* and the plain confirmation is returned.  Once clockIn has returned, no  *)
(* shift without a schedule has a status other than FLAGGED.               *)
(***************************************************************************)
C9_ClockInCreates ==
    /\ [](\A i \in DOMAIN workShifts :
             workShifts[i].scheduled_shift = NULL => workShifts[i].status = FLAGGED)
    /\ [][\A e \in Employees :
            (ClockInBy(e) /\ last'.ok)
                => /\ Len(workShifts') = Len(workShifts) + 1
                   /\ SubSeq(workShifts', 1, Len(workShifts)) = workShifts
                   /\ NewestShift'.employee = e
                   /\ NewestShift'.clock_out = NULL
                   /\ IF SchedulesOf(e, Today) = {}
                      THEN /\ NewestShift'.scheduled_shift = NULL
                           /\ NewestShift'.status = FLAGGED
                           /\ last'.msg = MsgClockedInFlagged
                      ELSE /\ NewestShift'.scheduled_shift \in SchedulesOf(e, Today)
                           /\ NewestShift'.status = OPEN
                           /\ last'.msg = MsgClockedIn]_vars

\* an unscheduled clockIn has just succeeded and its shift is flagged
C9_Witness ==
    /\ last = Result(TRUE, MsgClockedInFlagged)
    /\ NewestShift.scheduled_shift = NULL
    /\ NewestShift.status = FLAGGED
    /\ NewestShift.clock_out = NULL

(***************************************************************************)
(* C10: a successful clockOut sets clockOut on an open shift of the        *)
(* employee, to the current instant, and leaves every other shift and      *)
(* every other field alone; the status becomes CLOSED if and only if it    *)
(* was OPEN, and a FLAGGED or EDITED (or any other) status is kept.        *)
(***************************************************************************)
C10_ClockOutStatus ==
    [][\A e \in Employees :
          (ClockOut(e) /\ last'.ok)
              => \E s \in OpenShiftsOf(e) :
                    /\ last' = Result(TRUE, MsgClockedOut)
                    /\ workShifts' =
                          [workShifts EXCEPT
                              ![s].clock_out = clock,
                              ![s].status =
                                  IF workShifts[s].status = OPEN
                                  THEN CLOSED
                                  ELSE workShifts[s].status]
                    /\ workShifts'[s].clock_out # NULL
                    /\ (workShifts[s].status \in {FLAGGED, EDITED}
                           => workShifts'[s].status = workShifts[s].status)
                    /\ (workShifts'[s].status # workShifts[s].status
                           <=> workShifts[s].status = OPEN)]_vars

\* a clockOut has just succeeded on a shift an admin had edited, and the
\* shift is still EDITED
C10_Witness ==
    /\ last = Result(TRUE, MsgClockedOut)
    /\ editLogs # <<>>
    /\ \E s \in DOMAIN workShifts :
          /\ workShifts[s].status = EDITED
          /\ workShifts[s].clock_out = clock

(***************************************************************************)
(* C11: clockOut is rejected, and changes no WorkShift and no MealBreak,   *)
(* with "No open shift to clock out." when the employee has no open shift  *)
(* and with "End your meal break before clocking out." when the open shift *)
(* has a MealBreak with null endTime; so no clockOut step closes a shift   *)
(* while one of its breaks is open.                                        *)
(***************************************************************************)
C11_ClockOutRejections ==
    [][\A e \in Employees :
          ClockOut(e)
              => /\ OpenShiftsOf(e) = {}
                      => /\ last' = Result(FALSE, MsgNoShiftToClockOut)
                         /\ workShifts' = workShifts
                         /\ mealBreaks' = mealBreaks
                 /\ (\E s \in OpenShiftsOf(e) : OpenBreaksOf(s) # {})
                      => /\ last' = Result(FALSE, MsgEndBreakFirst)
                         /\ workShifts' = workShifts
                         /\ mealBreaks' = mealBreaks
                 /\ \A s \in DOMAIN workShifts :
                      (workShifts[s].clock_out = NULL /\ workShifts'[s].clock_out # NULL)
                          => \A b \in DOMAIN mealBreaks' :
                                mealBreaks'[b].shift = s
                                    => mealBreaks'[b].end_time # NULL]_vars

\* clockOut has just been refused because the employee's open shift has an
\* open meal break
C11_Witness ==
    /\ last = Result(FALSE, MsgEndBreakFirst)
    /\ \E s \in DOMAIN workShifts :
          workShifts[s].clock_out = NULL /\ OpenBreaksOf(s) # {}

(***************************************************************************)
(* C12: a successful endMealBreak sets endTime = now on the open break of  *)
(* the employee's open shift and nothing else on any break; it sets the    *)
(* shift's status to FLAGGED, whatever the status was, if and only if the  *)
(* break lasted fewer than 1800 whole seconds, and a break of 1800 seconds *)
(* or more leaves every shift exactly as it was.                           *)
(***************************************************************************)
C12_EndBreakFlagsShort ==
    [][\A e \in Employees :
          (EndMealBreak(e) /\ last'.ok)
              => \E s \in OpenShiftsOf(e) : \E b \in OpenBreaksOf(s) :
                    /\ mealBreaks' = [mealBreaks EXCEPT ![b].end_time = clock]
                    /\ IF (clock - mealBreaks[b].start_time) \div 1000 < 1800
                       THEN /\ workShifts' = [workShifts EXCEPT ![s].status = FLAGGED]
                            /\ last'.msg = MsgBreakEndedFlagged
                       ELSE /\ workShifts' = workShifts
                            /\ last'.msg = MsgBreakEnded]_vars

\* a break of exactly 1800 seconds has just been ended on a shift an admin
\* had marked EDITED, and the shift is still EDITED
C12_Witness ==
    /\ last = Result(TRUE, MsgBreakEnded)
    /\ \E b \in DOMAIN mealBreaks :
          /\ mealBreaks[b].end_time = clock
          /\ mealBreaks[b].end_time - mealBreaks[b].start_time = 1800 * 1000
          /\ workShifts[mealBreaks[b].shift].status = EDITED

\* the employee has an open shift and none of the employee's open shifts has
\* an open break: the state a successful endMealBreak leaves behind
OnShiftOffBreak(e) ==
    /\ OpenShiftsOf(e) # {}
    /\ \A s \in OpenShiftsOf(e) : OpenBreaksOf(s) = {}

(***************************************************************************)
(* C13: a successful endMealBreak leaves the employee on an open shift     *)
(* with no open break, and endMealBreak called in such a state returns     *)
(* (false, "No active meal break to end.") and changes no MealBreak and no *)
(* WorkShift, so the second of two calls in a row leaves endTime and       *)
(* status as the first left them; endMealBreak by an employee with no open *)
(* shift returns (false, "No open shift found.") and changes nothing.      *)
(***************************************************************************)
C13_EndBreakTwice ==
    [][\A e \in Employees :
          EndMealBreak(e)
              => /\ last'.ok => OnShiftOffBreak(e)'
                 /\ OnShiftOffBreak(e)
                      => /\ last' = Result(FALSE, MsgNoActiveBreak)
                         /\ mealBreaks' = mealBreaks
                         /\ workShifts' = workShifts
                 /\ OpenShiftsOf(e) = {}
                      => /\ last' = Result(FALSE, MsgNoOpenShift)
                         /\ mealBreaks' = mealBreaks
                         /\ workShifts' = workShifts]_vars

\* endMealBreak has just been refused on an open shift whose break was ended
\* at this same instant
C13_Witness ==
    /\ last = Result(FALSE, MsgNoActiveBreak)
    /\ \E b \in DOMAIN mealBreaks :
          /\ mealBreaks[b].end_time = clock
          /\ workShifts[mealBreaks[b].shift].clock_out = NULL
          /\ OpenBreaksOf(mealBreaks[b].shift) = {}

(***************************************************************************)
(* C14: startMealBreak by an employee with no open shift returns (false,   *)
(* "You must clock in first.") and changes no MealBreak and no WorkShift;  *)
(* a successful startMealBreak appends exactly one MealBreak, with         *)
(* startTime = now and null endTime, on an open shift of the employee, and *)
(* leaves every WorkShift (status, clockIn, clockOut, schedule link) as it *)
(* was.                                                                    *)
(***************************************************************************)
C14_StartBreakFrame ==
    [][\A e \in Employees :
          StartMealBreak(e)
              => /\ OpenShiftsOf(e) = {}
                      => /\ last' = Result(FALSE, MsgMustClockIn)
                         /\ mealBreaks' = mealBreaks
                         /\ workShifts' = workShifts
                 /\ last'.ok
                      => /\ workShifts' = workShifts
                         /\ \E s \in OpenShiftsOf(e) :
                               mealBreaks' =
                                   Append(mealBreaks,
                                          [shift |-> s, start_time |-> clock,
                                           end_time |-> NULL])]_vars

\* a break has just been started on a FLAGGED open shift, which is still
\* FLAGGED and open
C14_Witness ==
    /\ last = Result(TRUE, MsgBreakStarted)
    /\ mealBreaks # <<>>
    /\ mealBreaks[Len(mealBreaks)].start_time = clock
    /\ mealBreaks[Len(mealBreaks)].end_time = NULL
    /\ workShifts[mealBreaks[Len(mealBreaks)].shift].status = FLAGGED
    /\ workShifts[mealBreaks[Len(mealBreaks)].shift].clock_out = NULL

(***************************************************************************)
(* C15: in every reachable state, under any sequence of clockIn, clockOut  *)
(* and administrative edits, no WorkShift is stored with a non-null        *)
(* clockOut that is less than or equal to its clockIn.                     *)
(***************************************************************************)
C15_ClockOutAfterClockIn ==
    \A s \in DOMAIN workShifts :
        workShifts[s].clock_out # NULL
            => workShifts[s].clock_out > workShifts[s].clock_in

\* the values a change form can propose for the times of shift s, the stored
\* ones included
ProposedClockIns(s) == AdminClockIns \cup {workShifts[s].clock_in}
ProposedClockOuts(s) == AdminClockOuts \cup {workShifts[s].clock_out}

\* the reason is empty or whitespace only
Blank(reason) == reason \in {"", " "}

\* the step reports a validation error
Rejected == ~last'.ok /\ last'.msg # ""

(***************************************************************************)
(* C16: an administrative edit of an existing WorkShift whose proposed     *)
(* clockIn or clockOut differs from the stored value is rejected when      *)
(* policy.allowAdminTimeEdits is false, and is rejected when               *)
(* policy.requireAdminEditReason is true and the reason is empty or        *)
(* whitespace only; the rejected edit changes no WorkShift and creates no  *)
(* ShiftEditLog row.  Stated step by step: a step that is not a rejection  *)
(* leaving both tables unchanged is not the submission of such an edit     *)
(* under such a policy.                                                    *)
(***************************************************************************)
C16_AdminEditRejected ==
    [][\/ /\ Rejected
          /\ workShifts' = workShifts
          /\ editLogs' = editLogs
       \/ \A reason \in Reasons :
             (\/ ~PolicyInForce.allow_admin_time_edits
              \/ PolicyInForce.require_admin_edit_reason /\ Blank(reason))
                 => \A s \in DOMAIN workShifts :
                    \A clockIn \in ProposedClockIns(s), clockOut \in ProposedClockOuts(s) :
                       (clockIn # workShifts[s].clock_in \/ clockOut # workShifts[s].clock_out)
                          => \A status \in Status, user \in Admins :
                                ~AdminEdit(s, clockIn, clockOut, status, reason, user)]_vars

\* a time edit has just been refused for want of a reason, with edits allowed,
\* and the shift is as clock in left it with no audit row
C16_Witness ==
    /\ last = Result(FALSE, MsgReasonRequired)
    /\ PolicyInForce.allow_admin_time_edits
    /\ PolicyInForce.require_admin_edit_reason
    /\ editLogs = <<>>
    /\ workShifts # <<>>
    /\ \A s \in DOMAIN workShifts : workShifts[s].status # EDITED

\* a stored instant as an audit row shows it
Shown(t) == IF t = -1 THEN [kind |-> "None", at |-> 0]
                      ELSE [kind |-> "datetime", at |-> t]

\* the audit rows the step appends
AppendedLogs == {k \in DOMAIN editLogs' : k > Len(editLogs)}

\* the step appends exactly one row for the field of shift s, by the user,
\* showing the value stored before and the value stored after
LogsChange(s, field, before, after, user) ==
    \E k \in AppendedLogs :
        /\ editLogs'[k].work_shift = s
        /\ editLogs'[k].field_name = field
        /\ editLogs'[k].edited_by = user
        /\ editLogs'[k].old_value = Shown(before)
        /\ editLogs'[k].new_value = Shown(after)
        /\ \A j \in AppendedLogs : editLogs'[j].field_name = field => j = k

(***************************************************************************)
(* C17: an accepted administrative edit that changes clockIn or clockOut   *)
(* stores the proposed times, sets the shift's status to EDITED, records   *)
(* the editor, and appends exactly one ShiftEditLog row per changed field  *)
(* (one row if one of the two changed, two if both did), each carrying the *)
(* field's previously stored value as oldValue and the newly stored value  *)
(* as newValue; the rows already in the log stay as they were.             *)
(***************************************************************************)
C17_AcceptedEditLogged ==
    [][\A s \in DOMAIN workShifts :
       \A clockIn \in ProposedClockIns(s), clockOut \in ProposedClockOuts(s) :
       \A status \in Status, reason \in Reasons, user \in Admins :
          (/\ clockIn # workShifts[s].clock_in \/ clockOut # workShifts[s].clock_out
           /\ AdminEdit(s, clockIn, clockOut, status, reason, user)
           /\ ~Rejected)
              => /\ workShifts'[s].clock_in = clockIn
                 /\ workShifts'[s].clock_out = clockOut
                 /\ workShifts'[s].status = EDITED
                 /\ workShifts'[s].edited_by = user
                 /\ SubSeq(editLogs', 1, Len(editLogs)) = editLogs
                 /\ Cardinality(AppendedLogs) =
                        (IF clockIn # workShifts[s].clock_in THEN 1 ELSE 0)
                        + (IF clockOut # workShifts[s].clock_out THEN 1 ELSE 0)
                 /\ clockIn # workShifts[s].clock_in
                      => LogsChange(s, "clock_in", workShifts[s].clock_in,
                                    workShifts'[s].clock_in, user)
                 /\ clockOut # workShifts[s].clock_out
                      => LogsChange(s, "clock_out", workShifts[s].clock_out,
                                    workShifts'[s].clock_out, user)]_vars

\* one edit has just changed both times of a shift: the log holds two rows
\* for it, one per field, and the shift is EDITED by the admin
C17_Witness ==
    /\ last = NoResult
    /\ Len(editLogs) = 2
    /\ editLogs[1].work_shift = editLogs[2].work_shift
    /\ editLogs[1].field_name = "clock_in"
    /\ editLogs[2].field_name = "clock_out"
    /\ editLogs[1].new_value.at = workShifts[editLogs[1].work_shift].clock_in
    /\ editLogs[2].new_value.at = workShifts[editLogs[2].work_shift].clock_out
    /\ editLogs[2].old_value.kind = "None"
    /\ workShifts[editLogs[1].work_shift].status = EDITED
    /\ workShifts[editLogs[1].work_shift].edited_by \in Admins

\* the step is a change-form submission that changes a time and is accepted
AcceptedTimeEdit ==
    \E s \in DOMAIN workShifts :
    \E clockIn \in ProposedClockIns(s), clockOut \in ProposedClockOuts(s) :
    \E status \in Status, reason \in Reasons, user \in Admins :
        /\ clockIn # workShifts[s].clock_in \/ clockOut # workShifts[s].clock_out
        /\ AdminEdit(s, clockIn, clockOut, status, reason, user)
        /\ ~Rejected

(***************************************************************************)
(* C18: the audit log is append-only.  No step of clockIn, clockOut,       *)
(* startMealBreak, endMealBreak or an administrative edit modifies or      *)
(* removes a ShiftEditLog row that exists; the four lifecycle operations   *)
(* never add one; and whenever the log grows, the step is an accepted      *)
(* administrative edit that changes a time.                                *)
(***************************************************************************)
C18_AuditLogAppendOnly ==
    [][/\ Len(editLogs') >= Len(editLogs)
       /\ \A k \in DOMAIN editLogs : editLogs'[k] = editLogs[k]
       /\ \A e \in Employees :
             (ClockInBy(e) \/ ClockOut(e) \/ StartMealBreak(e) \/ EndMealBreak(e))
                 => editLogs' = editLogs
       /\ editLogs' # editLogs => AcceptedTimeEdit]_vars

\* a second accepted edit has just extended a log that already held a row of
\* an earlier edit, and that row is still the first
C18_Witness ==
    /\ last = NoResult
    /\ Len(editLogs) = 2
    /\ editLogs[1].field_name = "clock_in"
    /\ editLogs[2].field_name = "clock_out"
    /\ editLogs[1].reason # editLogs[2].reason
    /\ mealBreaks # <<>>

(***************************************************************************)
(* C19: clockIn uses one reading of the clock for its decision and for the *)
(* value it stores, so the clockIn stored on a shift created under strict  *)
(* mode with a nonzero grace value always lies within                      *)
(* [scheduledStart - graceBefore, scheduledStart + graceAfter], even when  *)
(* the clock advances during the operation.                                *)
(***************************************************************************)
C19_StoredClockInWithinWindow ==
    [][\A e \in Employees :
          (/\ ClockInBy(e)
           /\ last'.ok
           /\ PolicyInForce.strict_schedule_enforced
           /\ (GraceBeforeMillis # 0 \/ GraceAfterMillis # 0))
              => /\ ScheduledStartOf(e) - GraceBeforeMillis <= NewestShift'.clock_in
                 /\ NewestShift'.clock_in <= ScheduledStartOf(e) + GraceAfterMillis]_vars

(***************************************************************************)
(* C20: with administrative edits of clockIn and clockOut, an edit that    *)
(* clears clockOut on a closed shift included, interleaved with lifecycle  *)
(* operations, no employee ever has two WorkShifts whose clockOut is null. *)
(***************************************************************************)
C20_AtMostOneOpenShiftWithEdits ==
    \A s, t \in DOMAIN workShifts :
        (/\ workShifts[s].employee = workShifts[t].employee
         /\ workShifts[s].clock_out = NULL
         /\ workShifts[t].clock_out = NULL)
            => s = t

(***************************************************************************)
(* C21: every lifecycle operation is one atomic check-and-mutate, so no    *)
(* reachable state holds a WorkShift without a linked schedule whose       *)
(* status is OPEN instead of FLAGGED, and none holds a break shorter than  *)
(* 1800 seconds with its endTime recorded while its shift is not FLAGGED.  *)
(***************************************************************************)
C21_NoStateInsideAnOperation ==
    /\ \A s \in DOMAIN workShifts :
          workShifts[s].scheduled_shift = NULL => workShifts[s].status # OPEN
    /\ \A b \in DOMAIN mealBreaks :
          (/\ mealBreaks[b].end_time # NULL
           /\ (mealBreaks[b].end_time - mealBreaks[b].start_time) \div 1000 < 1800)
              => workShifts[mealBreaks[b].shift].status = FLAGGED

(***************************************************************************)
(* C22: at most one ScheduledShift exists per (employee, date) pair after  *)
(* any sequence of schedule saves, and saving a schedule for a pair that   *)
(* already has one succeeds by updating the existing record's start time,  *)
(* end time, canceled flag and notes in place: no second row, no           *)
(* rejection.                                                              *)
(***************************************************************************)
C22_ScheduleSavedInPlace ==
    /\ [](\A i, j \in DOMAIN scheduledShifts :
             (/\ scheduledShifts[i].employee = scheduledShifts[j].employee
              /\ scheduledShifts[i].date = scheduledShifts[j].date)
                 => i = j)
    /\ [][\A e \in Employees, date \in ScheduleDates, st \in StartTimes,
             et \in EndTimes, canceled \in BOOLEAN, notes \in ScheduleNotes :
            \A i \in DOMAIN scheduledShifts :
               (/\ SaveSchedule(e, date, st, et, canceled, notes)
                /\ scheduledShifts[i].employee = e
                /\ scheduledShifts[i].date = date)
                   => /\ Len(scheduledShifts') = Len(scheduledShifts)
                      /\ scheduledShifts'[i] =
                            [employee |-> e, date |-> date, start_time |-> st,
                             end_time |-> et, is_canceled |-> canceled,
                             notes |-> notes]
                      /\ last'.msg # MsgScheduleErrors]_vars

(***************************************************************************)
(* C23: after the first policy lookup exactly one TimeclockPolicy record   *)
(* exists in every reachable state: a lookup creates the record with the   *)
(* default values only when it is absent and returns the existing record   *)
(* unchanged otherwise, and no sequence of lookups and policy saves        *)
(* produces a second record.                                               *)
(***************************************************************************)
PolicyDefaults ==
    [pk |-> 1,
     strict_schedule_enforced |-> TRUE,
     allow_unscheduled_clock_in_when_not_strict |-> TRUE,
     grace_minutes_before_start |-> 0,
     grace_minutes_after_start |-> 0,
     allow_admin_time_edits |-> TRUE,
     require_admin_edit_reason |-> TRUE]

PolicyLookup ==
    \/ ViewSchedule
    \/ PolicyChangelist
    \/ \E e \in Employees : ClockIn(e, 0, 0)

C23_PolicySingleton ==
    /\ [](Cardinality(policyRows) <= 1)
    /\ [][policyRows # {} => Cardinality(policyRows') = 1]_vars
    /\ [][PolicyLookup =>
            policyRows' = IF policyRows = {} THEN {PolicyDefaults} ELSE policyRows]_vars

\* an unscheduled shift exists, so clock_in looked the policy up after a save
\* had switched strict enforcement off, and one record exists
C23_Witness ==
    /\ Cardinality(policyRows) = 1
    /\ \A r \in policyRows : r # PolicyDefaults
    /\ \E s \in DOMAIN workShifts : workShifts[s].scheduled_shift = NULL

(***************************************************************************)
(* C24: for every WorkShift, totalSeconds is clockOut - clockIn when       *)
(* clockOut is set and 0 when the shift is open; breakSeconds is the sum   *)
(* of (endTime - startTime) over its breaks with non-null endTime only;    *)
(* workedSeconds equals max(0, totalSeconds - breakSeconds) for every      *)
(* closed shift with any number of completed breaks, and is never          *)
(* negative.  Durations are counted in whole seconds, each one cut at the  *)
(* second.                                                                 *)
(***************************************************************************)
\* the whole seconds from one instant to another: the part of a second is
\* dropped, whichever way the difference points
SecondsBetween(from, to) ==
    LET apart == IF to >= from THEN to - from ELSE from - to
        whole == (apart - (apart % 1000)) \div 1000
    IN  IF to >= from THEN whole ELSE 0 - whole

CompletedBreaksOf(s) ==
    {i \in DOMAIN mealBreaks : mealBreaks[i].shift = s /\ mealBreaks[i].end_time # NULL}

RECURSIVE SumOfBreaks(_)
SumOfBreaks(ids) ==
    IF ids = {}
    THEN 0
    ELSE LET i == CHOOSE j \in ids : TRUE
         IN  SecondsBetween(mealBreaks[i].start_time, mealBreaks[i].end_time)
                 + SumOfBreaks(ids \ {i})

C24_Durations ==
    \A s \in DOMAIN workShifts :
        /\ workShifts[s].clock_out = NULL => TotalSeconds(s) = 0
        /\ workShifts[s].clock_out # NULL =>
              TotalSeconds(s) = SecondsBetween(workShifts[s].clock_in,
                                               workShifts[s].clock_out)
        /\ BreakSeconds(s) = SumOfBreaks(CompletedBreaksOf(s))
        /\ WorkedSeconds(s) >= 0
        /\ workShifts[s].clock_out # NULL =>
              /\ TotalSeconds(s) - BreakSeconds(s) >= 0
                    => WorkedSeconds(s) = TotalSeconds(s) - BreakSeconds(s)
              /\ TotalSeconds(s) - BreakSeconds(s) < 0 => WorkedSeconds(s) = 0

\* a closed shift with two completed breaks and one still open whose breaks
\* outlast it: the worked time is clamped
C24_Witness ==
    /\ workShifts # <<>>
    /\ workShifts[1].clock_out # NULL
    /\ workShifts[1].clock_out > workShifts[1].clock_in
    /\ Cardinality(CompletedBreaksOf(1)) = 2
    /\ TotalSeconds(1) > 0
    /\ TotalSeconds(1) < BreakSeconds(1)
    /\ last.msg = "0:00"

(***************************************************************************)
(* C25: operations invoked for one employee never read or change another   *)
(* employee's WorkShifts or MealBreaks: for employees A # B, any clockIn,   *)
(* clockOut, startMealBreak or endMealBreak call for A leaves all of B's   *)
(* shifts and breaks unchanged, and its outcome does not depend on B's     *)
(* shifts: it is the outcome that the policy, the clock and A's own        *)
(* schedule, shifts and breaks determine.                                  *)
(***************************************************************************)
\* every row that is not the employee's is kept, and every row that appears
\* is the employee's
OthersUntouched(a) ==
    /\ \A i \in DOMAIN workShifts :
          workShifts[i].employee # a
              => i \in DOMAIN workShifts' /\ workShifts'[i] = workShifts[i]
    /\ \A i \in DOMAIN workShifts' :
          i \notin DOMAIN workShifts => workShifts'[i].employee = a
    /\ \A b \in DOMAIN mealBreaks :
          workShifts[mealBreaks[b].shift].employee # a
              => b \in DOMAIN mealBreaks' /\ mealBreaks'[b] = mealBreaks[b]
    /\ \A b \in DOMAIN mealBreaks' :
          b \notin DOMAIN mealBreaks
              => workShifts'[mealBreaks'[b].shift].employee = a

\* the employee's own open breaks
OwnOpenBreaks(a) == UNION {OpenBreaksOf(s) : s \in OpenShiftsOf(a)}

OwnClockInOutcome(a, d1) ==
    IF OpenShiftsOf(a) # {} THEN Result(FALSE, MsgAlreadyOpen)
    ELSE IF PolicyInForce.strict_schedule_enforced
    THEN IF SchedulesOf(a, Today) = {} THEN Result(FALSE, MsgNoSchedule)
         ELSE IF /\ (GraceBeforeMillis # 0 \/ GraceAfterMillis # 0)
                 /\ ~(/\ ScheduledStartOf(a) - GraceBeforeMillis <= clock + d1 * Tick1
                      /\ clock + d1 * Tick1 <= ScheduledStartOf(a) + GraceAfterMillis)
              THEN Result(FALSE, MsgOutsideWindow)
              ELSE Result(TRUE, MsgClockedIn)
    ELSE IF SchedulesOf(a, Today) # {} THEN Result(TRUE, MsgClockedIn)
    ELSE IF PolicyInForce.allow_unscheduled_clock_in_when_not_strict
         THEN Result(TRUE, MsgClockedInFlagged)
         ELSE Result(FALSE, MsgUnscheduled)

OwnStartBreakOutcome(a) ==
    IF OpenShiftsOf(a) = {} THEN Result(FALSE, MsgMustClockIn)
    ELSE IF OwnOpenBreaks(a) # {} THEN Result(FALSE, MsgBreakActive)
    ELSE Result(TRUE, MsgBreakStarted)

OwnEndBreakOutcome(a) ==
    IF OpenShiftsOf(a) = {} THEN Result(FALSE, MsgNoOpenShift)
    ELSE IF OwnOpenBreaks(a) = {} THEN Result(FALSE, MsgNoActiveBreak)
    ELSE IF \E b \in OwnOpenBreaks(a) : clock - mealBreaks[b].start_time < 1800 * 1000
         THEN Result(TRUE, MsgBreakEndedFlagged)
         ELSE Result(TRUE, MsgBreakEnded)

OwnClockOutOutcome(a) ==
    IF OpenShiftsOf(a) = {} THEN Result(FALSE, MsgNoShiftToClockOut)
    ELSE IF OwnOpenBreaks(a) # {} THEN Result(FALSE, MsgEndBreakFirst)
    ELSE Result(TRUE, MsgClockedOut)

C25_EmployeesIndependent ==
    [][\A a \in Employees :
          /\ \A d1 \in Skews, d2 \in Skews :
                ClockIn(a, d1, d2)
                    => OthersUntouched(a) /\ last' = OwnClockInOutcome(a, d1)
          /\ StartMealBreak(a)
                => OthersUntouched(a) /\ last' = OwnStartBreakOutcome(a)
          /\ EndMealBreak(a)
                => OthersUntouched(a) /\ last' = OwnEndBreakOutcome(a)
          /\ ClockOut(a)
                => OthersUntouched(a) /\ last' = OwnClockOutOutcome(a)]_vars

\* an employee has just clocked out while another employee is on a shift and
\* on a meal break
C25_Witness ==
    /\ last = Result(TRUE, MsgClockedOut)
    /\ \E i, j \in DOMAIN workShifts :
          /\ workShifts[i].employee # workShifts[j].employee
          /\ workShifts[i].clock_out # NULL
          /\ workShifts[j].clock_out = NULL
          /\ OpenBreaksOf(j) # {}

(***************************************************************************)
(* C26: the portal_admin_required wrapper invokes the wrapped view if and  *)
(* only if the requesting user is authenticated and belongs to the 'Admin' *)
(* group; for every other user it raises PermissionDenied and the wrapped  *)
(* view is never executed.                                                 *)
(***************************************************************************)
PortalAdmin(user) == user.is_authenticated /\ "Admin" \in user.groups

C26_PortalAdminOnly ==
    [][\A user \in PortalUsers :
          PortalAdminSchedule(user)
              => IF PortalAdmin(user)
                 THEN /\ AdminSchedule
                      /\ last'.msg # MsgPermissionDenied
                 ELSE /\ last' = Result(FALSE, MsgPermissionDenied)
                      /\ UNCHANGED <<policyRows, scheduledShifts, workShifts,
                                     mealBreaks, editLogs>>]_vars

\* PermissionDenied has just been raised, on a database a portal admin has
\* written a policy and a schedule to
C26_Witness ==
    /\ last = Result(FALSE, MsgPermissionDenied)
    /\ policyRows # {}
    /\ scheduledShifts # <<>>

(***************************************************************************)
(* C27: duration formatting maps any non-negative number of seconds s to   *)
(* hours = s div 3600 (unbounded) and minutes = (s div 60) mod 60,         *)
(* rendered as "H:MM" with minutes always two digits in 00..59; leftover   *)
(* seconds are truncated, never rounded up.                                *)
(***************************************************************************)
Digit == <<"0", "1", "2", "3", "4", "5", "6", "7", "8", "9">>

RECURSIVE Decimal(_)
Decimal(n) ==
    IF n < 10 THEN Digit[n + 1] ELSE Decimal(n \div 10) \o Digit[(n % 10) + 1]

TwoDigits(n) == Digit[(n \div 10) + 1] \o Digit[(n % 10) + 1]

Rendered(s) == Decimal(s \div 3600) \o ":" \o TwoDigits((s \div 60) % 60)

C27_FmtHhmm ==
    [][\A s \in FmtSeconds :
          CallFmtHhmm(s)
              => /\ (s \div 60) % 60 \in 0..59
                 /\ last'.msg = Rendered(s)]_vars

\* 10:00:59 has just been shown as "10:00"
C27_Witness == last = Result(TRUE, "10:00")

(***************************************************************************)
(* C28: an administrative edit of an existing WorkShift that leaves both   *)
(* clockIn and clockOut equal to the stored values is accepted whatever    *)
(* the policy says (even with allowAdminTimeEdits false and an empty       *)
(* reason), creates no ShiftEditLog row, and does not set the status to    *)
(* EDITED or record an editor.                                             *)
(***************************************************************************)
C28_UnchangedTimesAccepted ==
    [][\A s \in DOMAIN workShifts, status \in Status, reason \in Reasons,
          user \in Admins :
            AdminEdit(s, workShifts[s].clock_in, workShifts[s].clock_out,
                      status, reason, user)
                => /\ last' = NoResult
                   /\ editLogs' = editLogs
                   /\ workShifts'[s].status = status
                   /\ workShifts'[s].edited_by = workShifts[s].edited_by
                   /\ workShifts'[s].clock_in = workShifts[s].clock_in
                   /\ workShifts'[s].clock_out = workShifts[s].clock_out]_vars

(***************************************************************************)
(* C29: every expected business rejection of a lifecycle operation         *)
(* (already open, no schedule, outside window, unscheduled not allowed, no *)
(* open shift, break already active, no active break, open break at        *)
(* clock-out) is returned as (false, non-empty message) rather than        *)
(* raised, and leaves all WorkShifts and MealBreaks exactly as they were   *)
(* before the call.                                                        *)
(***************************************************************************)
\* the step returns (false, one of the messages) and the ledger is as before
Refused(messages) ==
    /\ ~last'.ok
    /\ last'.msg # ""
    /\ last'.msg \in messages
    /\ workShifts' = workShifts
    /\ mealBreaks' = mealBreaks

C29_RejectionsReturned ==
    [][\A a \in Employees :
          /\ \A d1 \in Skews, d2 \in Skews :
                (ClockIn(a, d1, d2) /\ (~last'.ok \/ ~OwnClockInOutcome(a, d1).ok))
                    => /\ Refused({MsgAlreadyOpen, MsgNoSchedule, MsgOutsideWindow,
                                   MsgUnscheduled})
                       /\ last' = OwnClockInOutcome(a, d1)
          /\ (StartMealBreak(a) /\ (~last'.ok \/ ~OwnStartBreakOutcome(a).ok))
                => /\ Refused({MsgMustClockIn, MsgBreakActive})
                   /\ last' = OwnStartBreakOutcome(a)
          /\ (EndMealBreak(a) /\ (~last'.ok \/ ~OwnEndBreakOutcome(a).ok))
                => /\ Refused({MsgNoOpenShift, MsgNoActiveBreak})
                   /\ last' = OwnEndBreakOutcome(a)
          /\ (ClockOut(a) /\ (~last'.ok \/ ~OwnClockOutOutcome(a).ok))
                => /\ Refused({MsgNoShiftToClockOut, MsgEndBreakFirst})
                   /\ last' = OwnClockOutOutcome(a)]_vars

\* a clockIn outside the grace window has just been refused to an employee
\* with a closed shift and a completed break in the ledger
C29_Witness ==
    /\ last = Result(FALSE, MsgOutsideWindow)
    /\ \E s \in DOMAIN workShifts : workShifts[s].clock_out # NULL
    /\ \E b \in DOMAIN mealBreaks : mealBreaks[b].end_time # NULL

NewlyClosed ==
    {s \in DOMAIN workShifts' :
        /\ workShifts'[s].status = CLOSED
        /\ (s \in DOMAIN workShifts => workShifts[s].status # CLOSED)}

C31_StatusCoherent ==
    /\ [](\A s \in DOMAIN workShifts :
             /\ workShifts[s].status = OPEN => workShifts[s].clock_out = NULL
             /\ workShifts[s].status = CLOSED => workShifts[s].clock_out # NULL)
    /\ [][\A s \in NewlyClosed :
             /\ s \in DOMAIN workShifts
             /\ workShifts[s].status = OPEN
             /\ workShifts[s].clock_out = NULL
             /\ ClockOut(workShifts[s].employee)
             /\ last' = Result(TRUE, MsgClockedOut)]_vars

\* a CLOSED shift, clocked out, beside an OPEN one
C31_Witness ==
    \E s, t \in DOMAIN workShifts :
        /\ workShifts[s].status = CLOSED
        /\ workShifts[s].clock_out # NULL
        /\ workShifts[t].status = OPEN
        /\ workShifts[t].clock_out = NULL

(***************************************************************************)
(* C32: FLAGGED is absorbing with respect to the lifecycle engine: once a  *)
(* WorkShift's status is FLAGGED, no sequence of clockIn, clockOut,        *)
(* startMealBreak and endMealBreak calls ever changes it to another status *)
(* (only an administrative edit can).                                      *)
(***************************************************************************)
C32_FlaggedAbsorbing ==
    [][\A s \in DOMAIN workShifts :
          workShifts[s].status = FLAGGED
              => /\ s \in DOMAIN workShifts'
                 /\ workShifts'[s].status = FLAGGED]_vars

\* a FLAGGED shift has been through a meal break of 30 minutes and a clock out
C32_Witness ==
    \E s \in DOMAIN workShifts :
        /\ workShifts[s].status = FLAGGED
        /\ workShifts[s].clock_out # NULL
        /\ \E b \in DOMAIN mealBreaks :
              /\ mealBreaks[b].shift = s
              /\ mealBreaks[b].end_time # NULL
              /\ mealBreaks[b].end_time - mealBreaks[b].start_time >= 1800 * 1000

(***************************************************************************)
(* C33: under lifecycle operations only and a non-decreasing clock, for    *)
(* every shift closed by clockOut each completed break satisfies           *)
(* clockIn <= startTime <= endTime <= clockOut and the breaks do not       *)
(* overlap, so breakSeconds <= totalSeconds and the max(0, ...) clamp in   *)
(* workedSeconds is never the deciding term.                               *)
(***************************************************************************)
C33_BreaksInsideShift ==
    \A s \in DOMAIN workShifts :
        workShifts[s].clock_out # NULL
            => /\ \A b \in CompletedBreaksOf(s) :
                     /\ workShifts[s].clock_in <= mealBreaks[b].start_time
                     /\ mealBreaks[b].start_time <= mealBreaks[b].end_time
                     /\ mealBreaks[b].end_time <= workShifts[s].clock_out
               /\ \A b, c \in CompletedBreaksOf(s) :
                     b # c => \/ mealBreaks[b].end_time <= mealBreaks[c].start_time
                              \/ mealBreaks[c].end_time <= mealBreaks[b].start_time
               /\ BreakSeconds(s) <= TotalSeconds(s)
               /\ WorkedSeconds(s) = TotalSeconds(s) - BreakSeconds(s)

\* a closed shift with two completed breaks, time spent on break and time worked
C33_Witness ==
    \E s \in DOMAIN workShifts :
        /\ workShifts[s].clock_out # NULL
        /\ Cardinality(CompletedBreaksOf(s)) = 2
        /\ BreakSeconds(s) > 0
        /\ WorkedSeconds(s) > 0

(***************************************************************************)
(* C34: from any state reachable by lifecycle operations in which an       *)
(* employee has an open shift, the employee can always close it: clockOut  *)
(* succeeds immediately when no break is open, and otherwise succeeds      *)
(* right after one successful endMealBreak; after that clockOut the        *)
(* employee has no open shift and a subsequent clockIn is no longer        *)
(* rejected as "already open".                                             *)
(***************************************************************************)
\* the call is possible and succeeds, and leaves the employee off shift
ClockOutCloses(e) ==
    /\ ClockOut(e)
    /\ last' = Result(TRUE, MsgClockedOut)
    /\ \A s \in DOMAIN workShifts' :
          workShifts'[s].employee = e => workShifts'[s].clock_out # NULL

\* the call is possible and succeeds, and leaves the employee on shift with no
\* break open
EndBreakClears(e) ==
    /\ EndMealBreak(e)
    /\ last'.ok
    /\ \E s \in DOMAIN workShifts' :
          workShifts'[s].employee = e /\ workShifts'[s].clock_out = NULL
    /\ \A b \in DOMAIN mealBreaks' :
          workShifts'[mealBreaks'[b].shift].employee = e
              => mealBreaks'[b].end_time # NULL

C34_ShiftCanBeClosed ==
    /\ [](\A e \in Employees :
             /\ (OpenShiftsOf(e) # {} /\ OwnOpenBreaks(e) = {})
                   => ENABLED ClockOutCloses(e)
             /\ (OpenShiftsOf(e) # {} /\ OwnOpenBreaks(e) # {})
                   => ENABLED EndBreakClears(e))
    /\ [][\A e \in Employees :
             /\ (ClockOut(e) /\ OpenShiftsOf(e) # {} /\ OwnOpenBreaks(e) = {})
                   => ClockOutCloses(e)
             /\ (EndMealBreak(e) /\ OpenShiftsOf(e) # {} /\ OwnOpenBreaks(e) # {})
                   => EndBreakClears(e)
             /\ (ClockInBy(e) /\ OpenShiftsOf(e) = {})
                   => last'.msg # MsgAlreadyOpen]_vars

\* after a meal break and a clock out the employee has clocked in again
C34_Witness ==
    /\ last.ok
    /\ last.msg \in {MsgClockedIn, MsgClockedInFlagged}
    /\ \E s, t \in DOMAIN workShifts :
          /\ s < t
          /\ workShifts[s].employee = workShifts[t].employee
          /\ workShifts[s].clock_out # NULL
          /\ workShifts[t].clock_out = NULL
          /\ \E b \in DOMAIN mealBreaks :
                mealBreaks[b].shift = s /\ mealBreaks[b].end_time # NULL

(***************************************************************************)
(* C35: every ShiftEditLog row carries a non-empty reason.  The rows an     *)
(* accepted edit appends carry the shift's whitespace-stripped edit reason  *)
(* when that is non-empty, and the fixed text "Admin edit" when the edit    *)
(* was accepted with an empty reason, which happens only when               *)
(* policy.requireAdminEditReason is false; all rows of one edit carry the   *)
(* same reason and the same editor.                                        *)
(***************************************************************************)
\* the reason the rows of an edit must carry, given the reason stored on the
\* shift by that edit
ReasonOfRows(stored) == IF stored = "" THEN "Admin edit" ELSE stored

C35_LogReasonNeverEmpty ==
    /\ [](\A k \in DOMAIN editLogs : ~Blank(editLogs[k].reason))
    /\ [][\A s \in DOMAIN workShifts :
          \A clockIn \in ProposedClockIns(s), clockOut \in ProposedClockOuts(s) :
          \A status \in Status, reason \in Reasons, user \in Admins :
             (/\ clockIn # workShifts[s].clock_in \/ clockOut # workShifts[s].clock_out
              /\ AdminEdit(s, clockIn, clockOut, status, reason, user)
              /\ ~Rejected)
                 => /\ AppendedLogs # {}
                    /\ workShifts'[s].edit_reason # " "
                    /\ Blank(reason) <=> workShifts'[s].edit_reason = ""
                    /\ ~Blank(reason) => workShifts'[s].edit_reason = reason
                    /\ Blank(reason) => ~PolicyInForce.require_admin_edit_reason
                    /\ \A k \in AppendedLogs :
                          /\ editLogs'[k].reason = ReasonOfRows(workShifts'[s].edit_reason)
                          /\ editLogs'[k].edited_by = user
                    /\ \A j, k \in AppendedLogs :
                          /\ editLogs'[j].reason = editLogs'[k].reason
                          /\ editLogs'[j].edited_by = editLogs'[k].edited_by]_vars

\* one edit with a blank reason has just changed both times of a shift while
\* no reason was required: its two rows both read "Admin edit", by one editor
C35_Witness ==
    /\ last = NoResult
    /\ ~PolicyInForce.require_admin_edit_reason
    /\ Len(editLogs) = 2
    /\ editLogs[1].work_shift = editLogs[2].work_shift
    /\ editLogs[1].field_name = "clock_in"
    /\ editLogs[2].field_name = "clock_out"
    /\ workShifts[editLogs[1].work_shift].edit_reason = ""
    /\ editLogs[1].reason = "Admin edit"
    /\ editLogs[2].reason = "Admin edit"
    /\ editLogs[1].edited_by = editLogs[2].edited_by

=============================================================================
